---- MODULE Spec2Model ----
(***************************************************************************)
(* Model of the DBE fusion stability forecaster (src/dbe_simulation.py):   *)
(* the DBEState and PlasmaState objects, DBEState.reallocate_resources,    *)
(* DBEState.compute_metrics, simulate_event and the Simulation.run loop.   *)
(*                                                                         *)
(* Python floats are modelled in fixed point: a real x is the integer      *)
(* x * Scale.  Products are rescaled with floor division.  The input sets  *)
(* are chosen so that the stability arithmetic (gamma * 20, beta *         *)
(* response_time) is exact in this representation.                         *)
(***************************************************************************)
EXTENDS Integers, Sequences, FiniteSets, TLC

VARIABLES dbe_state, plasma_state, sim, calls, events, last, API_KEY,
          transport, pellet_injector, threads

vars == <<dbe_state, plasma_state, sim, calls, events, last, API_KEY,
          transport, pellet_injector, threads>>

(* The objects of the dbe package and the threads of a concurrent caller.   *)
dbe_vars == <<transport, pellet_injector, threads>>

----------------------------------------------------------------------------
(* Fixed-point arithmetic *)

Scale == 10000

Max(a, b) == IF a >= b THEN a ELSE b

Min(a, b) == IF a <= b THEN a ELSE b

Mul(a, b) == (a * b) \div Scale

Div(a, b) == (a * Scale) \div b

RECURSIVE Pow2(_)
Pow2(k) == IF k <= 0 THEN 1 ELSE 2 * Pow2(k - 1)

RECURSIVE FloorLog2(_)
FloorLog2(x) == IF x < 2 THEN 0 ELSE 1 + FloorLog2(x \div 2)

Ln2 == 6931

(* math.log of a positive integer x: x = 2^k * y with 1 <= y < 2,          *)
(* ln x = k ln 2 + 2 atanh((y - 1) / (y + 1)), the series cut at z^9.      *)
MathLog(x) ==
    LET k  == FloorLog2(x)
        z  == ((x - Pow2(k)) * Scale) \div (x + Pow2(k))
        z2 == Mul(z, z)
        z3 == Mul(z, z2)
        z5 == Mul(z3, z2)
        z7 == Mul(z5, z2)
        z9 == Mul(z7, z2)
    IN  k * Ln2 + 2 * (z + z3 \div 3 + z5 \div 5 + z7 \div 7 + z9 \div 9)

RECURSIVE ExpSeries(_, _, _)
ExpSeries(r, term, i) ==
    IF i > 9 \/ term = 0 THEN 0
    ELSE term + ExpSeries(r, (term * r) \div (Scale * i), i + 1)

(* math.exp of t: t = k ln 2 + r with 0 <= r < ln 2, exp t = 2^k exp r.    *)
MathExp(t) ==
    LET k == t \div Ln2
        r == t - k * Ln2
        e == ExpSeries(r, Scale, 1)
    IN  IF k >= 0 THEN e * Pow2(k) ELSE e \div Pow2(-k)

(* Variant: the midpoint argument is ignored for the default 0.5. *)
logistic_default_midpoint(x, k, x0) ==
    Div(Scale, Scale + MathExp(Mul(-k, x - 5000)))

logistic(x, k, x0) == Div(Scale, Scale + MathExp(Mul(-k, x - x0)))

----------------------------------------------------------------------------
(* DBEState *)

qubits_total_default == 100

memory_total_default == 100

learn_increment == 200

learn_cap == 5000

(* Variant: only the qubit argument is validated. *)
RaisesValueError_qubits_only(d, qubits, memory) ==
    ~(0 <= qubits /\ qubits <= d.qubits_total)

RaisesValueError(d, qubits, memory) ==
    \/ ~(0 <= qubits /\ qubits <= d.qubits_total)
    \/ ~(0 <= memory /\ memory <= d.memory_total)

(* Variant: the memory argument is stored without its range check. *)
reallocate_resources_no_memory_check(d, qubits, memory) ==
    IF ~(0 <= qubits /\ qubits <= d.qubits_total) THEN d
    ELSE [d EXCEPT !.qubits_for_detection = qubits,
                   !.memory_for_state = memory]

(* Variant: the qubit allocation is stored before memory is checked. *)
reallocate_resources_partial(d, qubits, memory) ==
    IF ~(0 <= qubits /\ qubits <= d.qubits_total) THEN d
    ELSE IF ~(0 <= memory /\ memory <= d.memory_total)
         THEN [d EXCEPT !.qubits_for_detection = qubits]
    ELSE [d EXCEPT !.qubits_for_detection = qubits,
                   !.memory_for_state = memory]

reallocate_resources(d, qubits, memory) ==
    IF ~(0 <= qubits /\ qubits <= d.qubits_total) THEN d
    ELSE IF ~(0 <= memory /\ memory <= d.memory_total) THEN d
    ELSE [d EXCEPT !.qubits_for_detection = qubits,
                   !.memory_for_state = memory]

(* Variant: the time crystal can be engaged but never disengaged. *)
toggle_time_crystal_engage_only(d, engaged) ==
    [d EXCEPT !.time_crystal_engaged = @ \/ engaged]

toggle_time_crystal(d, engaged) == [d EXCEPT !.time_crystal_engaged = engaged]

toggle_compression(d, engaged) == [d EXCEPT !.compression_engaged = engaged]

(* What compute_metrics raises, from the domain of math.log and the       *)
(* division by max_score, in the order the code evaluates them.            *)
compute_metrics_raises(d) ==
    IF d.memory_total + 1 <= 0 THEN "ValueError"
    ELSE IF d.memory_for_state + 1 <= 0 THEN "ValueError"
    ELSE IF MathLog(d.memory_total + 1) = 0 THEN "ZeroDivisionError"
    ELSE "none"

(* Variant: the stability score is not capped at 1. *)
compute_metrics_uncapped(d) ==
    LET base_response    == Scale
        response_time    == Div(base_response,
                                Max(Scale, (d.qubits_for_detection * Scale) \div 10))
        max_score        == MathLog(d.memory_total + 1)
        score0           == Div(MathLog(d.memory_for_state + 1), max_score)
        stability_score  == score0 + d.stability_gain
        coherence_factor == IF d.time_crystal_engaged THEN 13000 ELSE Scale
        efficiency_factor == IF d.compression_engaged THEN 13000 ELSE Scale
        response_score   == Div(Scale, Scale + response_time)
        raw0             == (stability_score + response_score) \div 2
        raw              == Mul(raw0, Mul(coherence_factor, efficiency_factor))
    IN  [response_time |-> response_time,
         stability_score |-> stability_score,
         coherence_factor |-> coherence_factor,
         efficiency_factor |-> efficiency_factor,
         mitigation_success_prob |-> logistic(raw, 5 * Scale, 6000)]

compute_metrics(d) ==
    LET base_response    == Scale
        response_time    == Div(base_response,
                                Max(Scale, (d.qubits_for_detection * Scale) \div 10))
        max_score        == MathLog(d.memory_total + 1)
        score0           == Div(MathLog(d.memory_for_state + 1), max_score)
        stability_score  == Min(Scale, score0 + d.stability_gain)
        coherence_factor == IF d.time_crystal_engaged THEN 13000 ELSE Scale
        efficiency_factor == IF d.compression_engaged THEN 13000 ELSE Scale
        response_score   == Div(Scale, Scale + response_time)
        raw0             == (stability_score + response_score) \div 2
        raw              == Mul(raw0, Mul(coherence_factor, efficiency_factor))
    IN  [response_time |-> response_time,
         stability_score |-> stability_score,
         coherence_factor |-> coherence_factor,
         efficiency_factor |-> efficiency_factor,
         mitigation_success_prob |-> logistic(raw, 5 * Scale, 6000)]

(* Variant: the learning bonus grows without its cap. *)
learn_from_event_uncapped(d) ==
    [d EXCEPT !.stability_gain = d.stability_gain + learn_increment]

learn_from_event(d) ==
    [d EXCEPT !.stability_gain = Min(learn_cap, d.stability_gain + learn_increment)]

----------------------------------------------------------------------------
(* PlasmaState *)

stability_default == 100 * Scale

(* Variant: the coupling term is subtracted. *)
update_tau_e_minus(p, stability_score, alpha) ==
    [p EXCEPT !.tau_e_current =
        Mul(p.tau_e_standard, Scale - Mul(alpha, stability_score))]

update_tau_e(p, stability_score, alpha) ==
    [p EXCEPT !.tau_e_current =
        Mul(p.tau_e_standard, Scale + Mul(alpha, stability_score))]

compute_Q(p) ==
    [Q_current  |-> Div(Mul(Mul(p.n, p.T), p.tau_e_current), p.heating_power),
     Q_baseline |-> Div(Mul(Mul(p.n, p.T), p.tau_e_standard), p.heating_power)]

----------------------------------------------------------------------------
(* simulate_event *)

mitigation_dip == 5 * Scale

(* Variant: half the percentage points per unit of growth rate. *)
loss_factor_halved == 20 \div 2

loss_factor == 20

(* Variant: the unmitigated loss is applied without the clamp at 0. *)
resolve_stability_unclamped(p, success, execute_mitigation, gamma_physical, beta, response_time) ==
    IF execute_mitigation
    THEN IF success
         THEN Max(0, p.stability - mitigation_dip)
         ELSE LET gamma_effective ==
                      Max(0, gamma_physical - Mul(beta, response_time))
                  loss == gamma_effective * loss_factor
              IN  Max(0, p.stability - loss)
    ELSE LET loss == gamma_physical * loss_factor
         IN  p.stability - loss

(* Variant: the unmitigated branch takes the beta discount as well. *)
resolve_stability_discounted(p, success, execute_mitigation, gamma_physical, beta, response_time) ==
    IF execute_mitigation /\ success
    THEN Max(0, p.stability - mitigation_dip)
    ELSE LET gamma_effective ==
                 Max(0, gamma_physical - Mul(beta, response_time))
             loss == gamma_effective * loss_factor
         IN  Max(0, p.stability - loss)

(* Variant: the failed branch forgets the beta discount. *)
resolve_stability_no_beta(p, success, execute_mitigation, gamma_physical, beta, response_time) ==
    IF execute_mitigation /\ success
    THEN Max(0, p.stability - mitigation_dip)
    ELSE LET loss == gamma_physical * loss_factor
         IN  Max(0, p.stability - loss)

(* Variant: a successful mitigation also takes the growth-rate loss. *)
resolve_stability_success_loss(p, success, execute_mitigation, gamma_physical, beta, response_time) ==
    IF execute_mitigation
    THEN LET gamma_effective ==
                 Max(0, gamma_physical - Mul(beta, response_time))
             loss == gamma_effective * loss_factor
         IN  IF success
             THEN Max(0, p.stability - mitigation_dip - loss)
             ELSE Max(0, p.stability - loss)
    ELSE LET loss == gamma_physical * loss_factor
         IN  Max(0, p.stability - loss)

(* The stability written by the resolution branch of one event. *)
resolve_stability(p, success, execute_mitigation, gamma_physical, beta, response_time) ==
    IF execute_mitigation
    THEN IF success
         THEN Max(0, p.stability - mitigation_dip)
         ELSE LET gamma_effective ==
                      Max(0, gamma_physical - Mul(beta, response_time))
                  loss == gamma_effective * loss_factor
              IN  Max(0, p.stability - loss)
    ELSE LET loss == gamma_physical * loss_factor
         IN  Max(0, p.stability - loss)

(* Variant: the totals are overwritten with the gain of the event. *)
accumulate_Q_overwrite(p) ==
    [p EXCEPT !.cumulative_Q = compute_Q(p).Q_current,
              !.cumulative_Q_baseline = compute_Q(p).Q_baseline]

(* The closing step of an event: the gain of the event is added to both    *)
(* accumulators.                                                           *)
accumulate_Q(p) ==
    [p EXCEPT !.cumulative_Q = @ + compute_Q(p).Q_current,
              !.cumulative_Q_baseline = @ + compute_Q(p).Q_baseline]

----------------------------------------------------------------------------
(* Simulation.run *)

(* The engage prompt of a subsystem is shown only while it is disengaged,  *)
(* and only the answer yes changes it.                                     *)
run_engage_time_crystal(d, answer) ==
    IF ~d.time_crystal_engaged /\ answer THEN toggle_time_crystal(d, TRUE)
    ELSE d

run_engage_compression(d, answer) ==
    IF ~d.compression_engaged /\ answer THEN toggle_compression(d, TRUE)
    ELSE d

(* The stability written by the final decision of one loop iteration. *)
run_resolve_stability(p, success, execute, gamma_physical, beta, response_time) ==
    IF execute
    THEN IF success
         THEN Max(0, p.stability - 5 * Scale)
         ELSE LET gamma_effective ==
                      Max(0, gamma_physical - Mul(beta, response_time))
                  loss == gamma_effective * 20
              IN  Max(0, p.stability - loss)
    ELSE LET gamma_effective == gamma_physical
             loss == gamma_effective * 20
         IN  Max(0, p.stability - loss)

(* Variant: the loop has no disruption test. *)
run_next_pc_no_break(stability, event_number, num_events) ==
    IF event_number >= num_events THEN "summary" ELSE "loop"

(* Where the loop goes after an event: it breaks when the plasma has       *)
(* disrupted and ends after num_events events.                             *)
run_next_pc(stability, event_number, num_events) ==
    IF stability <= 0 THEN "summary"
    ELSE IF event_number >= num_events THEN "summary"
    ELSE "loop"

----------------------------------------------------------------------------
(* cli/fast_endpoint.py *)

HTTPException(status_code, detail) ==
    [status |-> status_code, detail |-> detail]

SimRequest(qubits_alloc, memory_alloc, engage_time_crystal, engage_compression, gamma_physical) ==
    [qubits_alloc |-> qubits_alloc, memory_alloc |-> memory_alloc,
     engage_time_crystal |-> engage_time_crystal,
     engage_compression |-> engage_compression,
     gamma_physical |-> gamma_physical]

SimResponse(success, mitigation_probability, new_stability) ==
    [success |-> success,
     mitigation_probability |-> mitigation_probability,
     new_stability |-> new_stability]

(* A handler that returns gives status 200 with its value as the body.     *)
Returned(body) == [status |-> 200, body |-> body]

(* Variant: a request without the header passes the check. *)
require_api_key_header_optional(x_api_key) ==
    API_KEY # "" /\ x_api_key # "" /\ x_api_key # API_KEY

(* TRUE when require_api_key raises its HTTPException. *)
require_api_key(x_api_key) ==
    API_KEY # "" /\ x_api_key # API_KEY

(* The /simulate handler: the key check, the two guardrails, then the      *)
(* heuristic.  The controller and risk analyzer it constructs are not      *)
(* used.                                                                   *)
simulate(req, x_api_key) ==
    IF require_api_key(x_api_key)
    THEN HTTPException(401, "Invalid API key")
    ELSE IF ~(/\ 0 <= req.qubits_alloc /\ req.qubits_alloc <= 256
              /\ 0 <= req.memory_alloc /\ req.memory_alloc <= 1024)
    THEN HTTPException(400, "unreasonable allocation")
    ELSE IF ~(0 <= req.gamma_physical /\ req.gamma_physical <= 10 * Scale)
    THEN HTTPException(400, "gamma out of range")
    ELSE LET base  == 4000
             bonus == 40 * req.qubits_alloc + 30 * req.memory_alloc
                        + (IF req.engage_time_crystal THEN 800 ELSE 0)
                        + (IF req.engage_compression THEN 400 ELSE 0)
             p     == Max(0, Min(9900, base + bonus))
             new_stability ==
                 Max(0, Min(Scale, 7500 + Mul(2000, p - 5000)))
         IN  Returned(SimResponse(p > 5000, p, new_stability))

(* The loop of /simulate_batch from run i on: the HTTPException of a run   *)
(* leaves the handler, otherwise the run's response is appended.           *)
RECURSIVE simulate_batch_loop(_, _, _, _)
simulate_batch_loop(runs, x_api_key, i, results) ==
    IF i > Len(runs)
    THEN Returned([count |-> Len(results), results |-> results])
    ELSE LET r == simulate(runs[i], x_api_key)
         IN  IF r.status # 200 THEN r
             ELSE simulate_batch_loop(runs, x_api_key, i + 1,
                                      Append(results, r.body))

(* Variant: each response is put in front of the earlier ones. *)
RECURSIVE simulate_batch_loop_prepend(_, _, _, _)
simulate_batch_loop_prepend(runs, x_api_key, i, results) ==
    IF i > Len(runs)
    THEN Returned([count |-> Len(results), results |-> results])
    ELSE LET r == simulate(runs[i], x_api_key)
         IN  IF r.status # 200 THEN r
             ELSE simulate_batch_loop_prepend(runs, x_api_key, i + 1,
                                              <<r.body>> \o results)

(* Variant of the handler built on the prepending loop. *)
simulate_batch_prepend(runs, x_api_key) ==
    IF require_api_key(x_api_key)
    THEN HTTPException(401, "Invalid API key")
    ELSE simulate_batch_loop_prepend(runs, x_api_key, 1, <<>>)

simulate_batch(runs, x_api_key) ==
    IF require_api_key(x_api_key)
    THEN HTTPException(401, "Invalid API key")
    ELSE simulate_batch_loop(runs, x_api_key, 1, <<>>)

----------------------------------------------------------------------------
(* dbe/risk.py *)

Abs(x) == IF x < 0 THEN -x ELSE x

(* An attribute that getattr does not find. *)
None == [none |-> TRUE]

(* RiskAnalyzer() with the default thresholds and penalties. *)
RiskAnalyzer ==
    [stability_thresholds |-> <<2000, 5000>>,
     coil_penalty |-> 3000,
     pellet_penalty |-> 2000,
     memory_penalty |-> 1000]

(* A note of the report: the subsystem it is about and its wording, the    *)
(* formatted numbers left out.                                             *)
Note(about, text) == [about |-> about, text |-> text]

(* Variant: the risk is returned without the clamp to [0, 1]. *)
assess_unclamped(analyzer, stability, controller) ==
    LET high_thresh == analyzer.stability_thresholds[1]
        med_thresh  == analyzer.stability_thresholds[2]
        risk_base   == Scale - stability
        notes0      == IF stability <= high_thresh
                       THEN <<Note("stability",
                                   "Stability below high-risk threshold.")>>
                       ELSE IF stability <= med_thresh
                       THEN <<Note("stability",
                                   "Stability below medium-risk threshold.")>>
                       ELSE <<Note("stability", "Stability nominal.")>>
        coil_hit    == /\ controller.rmp_coil # None
                       /\ Abs(controller.rmp_coil.I_set
                                - controller.rmp_coil.I_max) * 100 < 1
                       /\ stability <= med_thresh
        risk1       == IF coil_hit THEN risk_base + analyzer.coil_penalty
                       ELSE risk_base
        notes1      == IF coil_hit
                       THEN Append(notes0, Note("coil",
                           "RMP coil at maximum current; limited headroom."))
                       ELSE notes0
        pellet_hit  == /\ controller.pellet_injector # None
                       /\ stability <= high_thresh
                       /\ controller.pellet_injector.can_fire = "False"
        risk2       == IF pellet_hit THEN risk1 + analyzer.pellet_penalty
                       ELSE risk1
        notes2      == IF pellet_hit
                       THEN Append(notes1, Note("pellet",
                           "Pellet injector unavailable when needed."))
                       ELSE notes1
        memory_hit  == /\ controller.memory # None
                       /\ controller.memory.error_count > 0
        risk3       == IF memory_hit THEN risk2 + analyzer.memory_penalty
                       ELSE risk2
        notes3      == IF memory_hit
                       THEN Append(notes2, Note("memory",
                           "Memory error count > 0."))
                       ELSE notes2
    IN  [score |-> risk3, notes |-> notes3]

(* RiskAnalyzer.assess: the stability note, then the penalty and note of   *)
(* the coil, of the pellet injector and of the memory, then the clamp.     *)
(* can_fire is the answer of the injector at the wall-clock time of the    *)
(* call: "True", "False", or "raises" when it throws, which assess         *)
(* swallows.                                                               *)
assess(analyzer, stability, controller) ==
    LET high_thresh == analyzer.stability_thresholds[1]
        med_thresh  == analyzer.stability_thresholds[2]
        risk_base   == Scale - stability
        notes0      == IF stability <= high_thresh
                       THEN <<Note("stability",
                                   "Stability below high-risk threshold.")>>
                       ELSE IF stability <= med_thresh
                       THEN <<Note("stability",
                                   "Stability below medium-risk threshold.")>>
                       ELSE <<Note("stability", "Stability nominal.")>>
        coil_hit    == /\ controller.rmp_coil # None
                       /\ Abs(controller.rmp_coil.I_set
                                - controller.rmp_coil.I_max) * 100 < 1
                       /\ stability <= med_thresh
        risk1       == IF coil_hit THEN risk_base + analyzer.coil_penalty
                       ELSE risk_base
        notes1      == IF coil_hit
                       THEN Append(notes0, Note("coil",
                           "RMP coil at maximum current; limited headroom."))
                       ELSE notes0
        pellet_hit  == /\ controller.pellet_injector # None
                       /\ stability <= high_thresh
                       /\ controller.pellet_injector.can_fire = "False"
        risk2       == IF pellet_hit THEN risk1 + analyzer.pellet_penalty
                       ELSE risk1
        notes2      == IF pellet_hit
                       THEN Append(notes1, Note("pellet",
                           "Pellet injector unavailable when needed."))
                       ELSE notes1
        memory_hit  == /\ controller.memory # None
                       /\ controller.memory.error_count > 0
        risk3       == IF memory_hit THEN risk2 + analyzer.memory_penalty
                       ELSE risk2
        notes3      == IF memory_hit
                       THEN Append(notes2, Note("memory",
                           "Memory error count > 0."))
                       ELSE notes2
    IN  [score |-> Max(0, Min(Scale, risk3)), notes |-> notes3]

----------------------------------------------------------------------------
(* dbe/actuators.py *)

RMPCoil(I_max) == [I_max |-> I_max, I_set |-> 0]

set_current(coil, current) ==
    [coil EXCEPT !.I_set = Max(0, Min(coil.I_max, current))]

PelletInjector(rate_max_hz, size_max) ==
    [rate_max_hz |-> rate_max_hz, size_max |-> size_max, last_fire_s |-> 0]

(* The names of the parameters of PelletInjector.fire after self. *)
PelletInjectorFireParams == {"sim", "current_time", "size"}

can_fire(injector, current_time) ==
    IF injector.rate_max_hz <= 0 THEN TRUE
    ELSE (current_time - injector.last_fire_s)
             >= Div(Scale, injector.rate_max_hz)

(* int(n * 0.8) as a 1-based position: the first entry a pellet cools.    *)
pellet_start(n) == ((n * 8) \div 10) + 1

(* PelletInjector.fire: [returned, injector, T_keV] after the call.        *)
fire(injector, T_keV, current_time, size) ==
    IF ~can_fire(injector, current_time)
    THEN [returned |-> FALSE, injector |-> injector, T_keV |-> T_keV]
    ELSE
      LET clamped == Max(0, Min(injector.size_max, size))
          drop_fraction == IF injector.size_max > 0
                           THEN Mul(500, Div(clamped, injector.size_max))
                           ELSE 0
      IN  [returned |-> TRUE,
           injector |-> [injector EXCEPT !.last_fire_s = current_time],
           T_keV |->
               IF drop_fraction > 0
               THEN [i \in 1..Len(T_keV) |->
                        IF i >= pellet_start(Len(T_keV))
                        THEN Mul(T_keV[i], Scale - drop_fraction)
                        ELSE T_keV[i]]
               ELSE T_keV]

----------------------------------------------------------------------------
(* dbe/quantum.py *)

(* The fields of the dataclasses, the keywords their constructors accept.  *)
FractonMemoryFields ==
    {"capacity_mb", "error_rate_per_hour", "stored_data", "total_errors"}

TimeCrystalClockFields == {"tick_ns", "start_time_s"}

HolographicEncoderFields == {"compression_factor"}

(* The names of the parameters of FractonMemory.write after self. *)
FractonMemoryWriteParams == {"data"}

(* TimeCrystalClock.sync_delay, with times and the delay in nanoseconds.   *)
sync_delay(clock, current_time) ==
    IF clock.tick_ns <= 0 THEN 0
    ELSE LET elapsed_ns == current_time - clock.start_time
             remainder == elapsed_ns % clock.tick_ns
         IN  clock.tick_ns - remainder

RECURSIVE SumSeq(_)
SumSeq(s) == IF s = <<>> THEN 0 ELSE Head(s) + SumSeq(Tail(s))

(* HolographicEncoder.encode: the averages of the blocks of                *)
(* compression_factor entries, the last block being shorter when the       *)
(* length is not a multiple of it.                                         *)
encode(compression_factor, data) ==
    IF compression_factor <= 0 THEN data
    ELSE [k \in 1..((Len(data) + compression_factor - 1)
                        \div compression_factor) |->
             LET block == SubSeq(data, (k - 1) * compression_factor + 1,
                                 Min(k * compression_factor, Len(data)))
             IN  SumSeq(block) \div Len(block)]

(* HolographicEncoder.decode: every compressed value repeated, the result  *)
(* cut to original_length or filled up with the last compressed value.     *)
decode(compressed, original_length) ==
    IF compressed = <<>> \/ original_length <= 0 THEN <<>>
    ELSE LET repeat == Max(1, original_length \div Len(compressed))
         IN  [j \in 1..original_length |->
                 IF j <= Len(compressed) * repeat
                 THEN compressed[((j - 1) \div repeat) + 1]
                 ELSE compressed[Len(compressed)]]

----------------------------------------------------------------------------
(* dbe/controller.py *)

(* The keywords the default factories of DBEController pass.               *)
ControllerMemoryKeywords == {"capacity_mb", "error_rate_per_hour"}

ControllerClockKeywords == {"tick_ns"}

ControllerEncoderKeywords == {"block_size"}

(* The call sites in decide: memory.write gets two positional arguments,   *)
(* pellet_injector.fire these keywords.                                    *)
DecideWriteArguments == <<"temp_profile", "data">>

DecideFireKeywords == {"current_time", "radial_position", "size"}

(* A controller whose fields were all constructed. *)
ControllerObject(I_max) ==
    [rmp_coil |-> RMPCoil(I_max),
     pellet_injector |-> PelletInjector(50 * Scale, Scale),
     stored_data |-> <<>>,
     last_decision |-> <<>>]

(* DBEController with some fields given: the default factory of every field that is not  *)
(* given runs; a factory that passes a keyword its class does not have     *)
(* raises TypeError.                                                       *)
DBEController(given, I_max) ==
    IF \/ "memory" \notin given
          /\ ~(ControllerMemoryKeywords \subseteq FractonMemoryFields)
       \/ "clock" \notin given
          /\ ~(ControllerClockKeywords \subseteq TimeCrystalClockFields)
       \/ "encoder" \notin given
          /\ ~(ControllerEncoderKeywords \subseteq HolographicEncoderFields)
    THEN [raised |-> "TypeError"]
    ELSE [raised |-> "none", controller |-> ControllerObject(I_max)]

(* DBEController.decide on a plasma state without a temperature attribute: *)
(* the memory write, the thresholds, the pellet when it can be fired, the  *)
(* coil command and the stored decision.  A call that does not fit the     *)
(* signature of its method raises TypeError and what follows does not run. *)
decide(controller, stability, now) ==
    IF Len(DecideWriteArguments) # Cardinality(FractonMemoryWriteParams)
    THEN [raised |-> "TypeError", controller |-> controller]
    ELSE
      LET c1 == [controller EXCEPT !.stored_data = <<stability>>]
          fires == stability < 3000 /\ can_fire(c1.pellet_injector, now)
          rmp_current == IF stability < 3000 THEN c1.rmp_coil.I_max
                         ELSE IF stability < 6000
                         THEN Mul(5000, c1.rmp_coil.I_max)
                         ELSE 0
          decision == [rmp_current |-> rmp_current, pellet_fire |-> fires]
      IN  IF fires /\ DecideFireKeywords # PelletInjectorFireParams
          THEN [raised |-> "TypeError", controller |-> c1]
          ELSE [raised |-> "none",
                decision |-> decision,
                controller |->
                    [c1 EXCEPT
                        !.pellet_injector.last_fire_s =
                            IF fires THEN now ELSE @,
                        !.rmp_coil = set_current(@, rmp_current),
                        !.last_decision = decision]]

----------------------------------------------------------------------------
(* dbe/plasma.py *)

(* Profiles.shear_strength *)
shear_strength == 3 * Scale

(* Profiles.T_keV with T0_keV = 10 and alpha_T = 3, x = r / a. *)
T_keV_profile(x) == Mul(10 * Scale, Scale - Mul(Mul(x, x), x))

(* create_radial_grid(minor_radius, npoints) *)
create_radial_grid(minor_radius, npoints) ==
    [i \in 1..npoints |-> (i - 1) * (minor_radius \div (npoints - 1))]

(* initialize_profiles: the grid and the temperature on it, time 0 and     *)
(* stability 1.                                                            *)
initialize_profiles(minor_radius, npoints) ==
    LET r_grid == create_radial_grid(minor_radius, npoints)
    IN  [r |-> r_grid,
         T_keV |-> [i \in 1..npoints |->
                       T_keV_profile(Div(r_grid[i], minor_radius))],
         time |-> 0,
         stability |-> Scale]

(* TransportSimulator.diffusivity at the 1-based grid position idx. *)
diffusivity(state, idx) ==
    LET x == Div(state.r[idx], state.r[Len(state.r)])
        shear == Mul(shear_strength, Scale - x)
    IN  Div(5000, Scale + shear)

(* The diffusion term of step at the interior position i. *)
diffusion(state, i) ==
    LET T == state.T_keV
        dr_left == state.r[i] - state.r[i - 1]
        dr_right == state.r[i + 1] - state.r[i]
        flux_in == Div(Mul(diffusivity(state, i - 1), T[i - 1] - T[i]),
                       dr_left)
        flux_out == Div(Mul(diffusivity(state, i), T[i] - T[i + 1]),
                        dr_right)
    IN  Div(flux_in - flux_out, (dr_left + dr_right) \div 2)

(* TransportSimulator.step without sources: the interior points diffuse,   *)
(* the two boundary points keep their values, the time advances by dt.     *)
step(state, dt) ==
    [state EXCEPT
        !.T_keV = [i \in 1..Len(state.T_keV) |->
                      IF 1 < i /\ i < Len(state.T_keV)
                      THEN state.T_keV[i] + Mul(dt, diffusion(state, i))
                      ELSE state.T_keV[i]],
        !.time = @ + dt]

(* TransportSimulator.check_edge_gradient with threshold 3.0 *)
check_edge_gradient(state) ==
    LET n == Len(state.T_keV)
    IN  Abs(Div(state.T_keV[n] - state.T_keV[n - 1],
                state.r[n] - state.r[n - 1])) > 3 * Scale

(* Variant: the stability is lowered without the clamp at 0. *)
trigger_elm_unclamped(state) ==
    [state EXCEPT
        !.T_keV = [i \in 1..Len(state.T_keV) |->
                      IF i >= ((75 * Len(state.T_keV)) \div 100) + 1
                      THEN Mul(state.T_keV[i], Scale - 2000)
                      ELSE state.T_keV[i]],
        !.stability = @ - 1000]

(* TransportSimulator.trigger_elm with crash_fraction 0.2 *)
trigger_elm(state) ==
    [state EXCEPT
        !.T_keV = [i \in 1..Len(state.T_keV) |->
                      IF i >= ((75 * Len(state.T_keV)) \div 100) + 1
                      THEN Mul(state.T_keV[i], Scale - 2000)
                      ELSE state.T_keV[i]],
        !.stability = Max(0, @ - 1000)]

(* One pass through the body of the loop of run_until. *)
run_until_body(state, dt) ==
    IF check_edge_gradient(step(state, dt))
    THEN trigger_elm(step(state, dt))
    ELSE step(state, dt)

(* The loop test of run_until. *)
run_until_continues(state, end_time) ==
    state.time < end_time /\ state.stability > 0

----------------------------------------------------------------------------
(* Input sets and bounds *)

MaxEvents == 2

MaxLaterCalls == 1

MaxDecayCalls == 6

MaxGainCalls == 2

MaxHeatingCalls == 2

MaxMetricsCalls == 1

MaxRiskCalls == 1

MaxControllerCalls == 1

MaxPelletCalls == 3

MaxDataLen == 4

MaxApiCalls == 1

MaxBatch == 2

Gammas == {-5000, 49000}

Alphas == {0, 3000}

Betas == {0, 2000}

QubitInputs == {-1, 50, 101}

MemoryInputs == {-1, 50, 101}

EventAllocs == {<<50, 50>>, <<101, 50>>, <<50, -1>>}

Draws == {5000, 9999}

InitAllocs == {<<5, 0>>, <<50, 50>>}

InitGains == {0, 4800}

RunGammas == {5000, 15000}

GainAlphas == {-20000, 0, 30000}

GainHeating == {Scale, 2 * Scale}

InitHeating == {-Scale, 0, Scale}

MetricQubits == {0, 5, 10, 11, 50, 100}

MetricMemory == {0, 1, 50, 100}

MetricPools == {-1, 0, 100}

MetricGains == {0, 200, 5000}

ApiKeys == {"", "s3cret", "guess"}

ApiRequests ==
    {SimRequest(q, m, tc, FALSE, gamma) :
        q \in {-1, 25, 50, 257}, m \in {50, 1025}, tc \in BOOLEAN,
        gamma \in {10000, 110000}}

BatchRequests ==
    {SimRequest(50, 50, FALSE, FALSE, 10000),
     SimRequest(25, 50, TRUE, FALSE, 10000),
     SimRequest(0, 0, FALSE, FALSE, 0),
     SimRequest(257, 50, FALSE, FALSE, 10000),
     SimRequest(50, 50, FALSE, FALSE, 110000)}

RECURSIVE Batches(_)
Batches(n) ==
    IF n = 0 THEN {<<>>}
    ELSE Batches(n - 1)
           \cup {Append(b, r) : b \in {c \in Batches(n - 1) : Len(c) = n - 1},
                                r \in BatchRequests}

RiskStabilities == {-5000, 0, 2000, 2001, 5000, 5001, 8000, 10000, 15000}

RiskCoils == {None, [I_set |-> 0, I_max |-> Scale],
              [I_set |-> Scale, I_max |-> Scale]}

RiskPellets == {None, [can_fire |-> "True"], [can_fire |-> "False"],
                [can_fire |-> "raises"]}

RiskMemories == {None, [error_count |-> 0], [error_count |-> 2]}

ControllerStabilities == {200 * k : k \in 0..50}

ControllerGiven == {{}, {"encoder"}}

ControllerCoils == {Scale, 2 * Scale}

WallClock == 1000 * Scale

PelletRates == {10 * Scale, 50 * Scale}

PelletTimes == {0, 200, 500, 1000, 1500}

PelletSizes == {Scale \div 2, 2 * Scale}

PelletProfiles == {<<100000, 98437, 87500, 57812, 0>>, <<20000, 20000, 20000, 20000, 20000>>}

ClockTicks == {0, 50, 100, 250, 1000}

ClockStarts == {0, 100}

ClockTimes == {25 * k : k \in 0..40}

EncoderFactors == {0, 1, 2, 3}

EncoderValues == {0, 6000, 12000}

EncoderData == UNION {[1..n -> EncoderValues] : n \in 0..MaxDataLen}

GridPoints == 5

TransportStabilities == {Scale, 2500}

FlatProfile == [i \in 1..GridPoints |-> 2 * Scale]

EndTimes == {0, 300, 500, 2000}

TimeSteps == {100, 200}

NumEvents == 5

SimAlpha == 3000

SimBeta == 2000

----------------------------------------------------------------------------
(* State *)

DBEState(qubits, memory, gain) ==
    [qubits_total |-> qubits_total_default,
     memory_total |-> memory_total_default,
     qubits_for_detection |-> qubits,
     memory_for_state |-> memory,
     time_crystal_engaged |-> FALSE,
     compression_engaged |-> FALSE,
     stability_gain |-> gain]

PlasmaState ==
    [stability |-> stability_default,
     tau_e_standard |-> Scale,
     tau_e_current |-> Scale,
     n |-> Scale,
     T |-> Scale,
     heating_power |-> Scale,
     cumulative_Q |-> 0,
     cumulative_Q_baseline |-> 0]

Simulation(pc) ==
    [pc |-> pc, event_number |-> 0, num_events |-> NumEvents,
     alpha |-> SimAlpha, beta |-> SimBeta]

(* The record of the most recent call: its operation, arguments, result    *)
(* and the two state objects as they were when it was entered.             *)
Call(op, raised, qubits, memory, gamma, beta, execute, success, prob, d, p) ==
    [op |-> op, raised |-> raised, qubits |-> qubits, memory |-> memory,
     gamma |-> gamma, beta |-> beta, execute |-> execute,
     success |-> success, prob |-> prob, pre_dbe |-> d, pre_plasma |-> p]

NoCall(d, p) == Call("none", "none", 0, 0, 0, 0, FALSE, FALSE, 0, d, p)

(* The record of a simulate_event call also holds its alpha and its two    *)
(* engage arguments.                                                       *)
EventCall(call, alpha, engage_time_crystal, engage_compression) ==
    call @@ [alpha |-> alpha,
             engage_time_crystal |-> engage_time_crystal,
             engage_compression |-> engage_compression]

(* A program that constructs no object of the dbe package and starts no    *)
(* thread.                                                                 *)
NotConstructed ==
    /\ transport = [constructed |-> FALSE]
    /\ pellet_injector = [constructed |-> FALSE]
    /\ threads = <<>>

(* State objects constructed by a caller of simulate_event. *)
Init ==
    /\ \E a \in InitAllocs, gain \in InitGains :
         dbe_state = DBEState(a[1], a[2], gain)
    /\ plasma_state = PlasmaState
    /\ sim = Simulation("idle")
    /\ calls = 0
    /\ events = 0
    /\ last = NoCall(dbe_state, plasma_state)
    /\ API_KEY = ""
    /\ NotConstructed

(* Simulation.__init__: default state objects, the loop about to start. *)
InitRun ==
    /\ dbe_state = DBEState(50, 50, 0)
    /\ plasma_state = PlasmaState
    /\ sim = Simulation("loop")
    /\ calls = 0
    /\ events = 0
    /\ last = NoCall(dbe_state, plasma_state)
    /\ API_KEY = ""
    /\ NotConstructed

(* Default state objects constructed by a caller of simulate_event. *)
InitDecay ==
    /\ dbe_state = DBEState(50, 50, 0)
    /\ plasma_state = PlasmaState
    /\ sim = Simulation("idle")
    /\ calls = 0
    /\ events = 0
    /\ last = NoCall(dbe_state, plasma_state)
    /\ API_KEY = ""
    /\ NotConstructed

(* The record of a compute_metrics call: what it raised, the metrics it    *)
(* returned, and the state objects it was called on.                       *)
MetricsCall(raised, result, d, p) ==
    [op |-> "compute_metrics", raised |-> raised, result |-> result,
     pre_dbe |-> d, pre_plasma |-> p]

(* A DBEState constructed with any of its fields given; the dataclass      *)
(* constructor checks none of them.                                        *)
InitMetrics ==
    /\ \E qubits \in MetricQubits, memory \in MetricMemory,
          pool \in MetricPools, gain \in MetricGains,
          tc \in BOOLEAN, co \in BOOLEAN :
         dbe_state = [DBEState(qubits, memory, gain) EXCEPT
                         !.memory_total = pool,
                         !.time_crystal_engaged = tc,
                         !.compression_engaged = co]
    /\ plasma_state = PlasmaState
    /\ sim = Simulation("idle")
    /\ calls = 0
    /\ events = 0
    /\ last = NoCall(dbe_state, plasma_state)
    /\ API_KEY = ""
    /\ NotConstructed

(* The record of a request to the API: the header, the payload and the     *)
(* response.                                                               *)
ApiCall(op, x_api_key, payload, response) ==
    [op |-> op, x_api_key |-> x_api_key, payload |-> payload,
     response |-> response]

(* The API process after import: API_KEY read from the environment, empty  *)
(* when DBE_API_KEY is not set.                                            *)
InitApi ==
    /\ dbe_state = DBEState(50, 50, 0)
    /\ plasma_state = PlasmaState
    /\ sim = Simulation("idle")
    /\ calls = 0
    /\ events = 0
    /\ last = NoCall(dbe_state, plasma_state)
    /\ API_KEY \in {"", "s3cret"}
    /\ NotConstructed

(* The record of an assess call: the stability of the plasma state, the    *)
(* controller it was given and the report it returned.                     *)
AssessCall(stability, controller, report) ==
    [op |-> "assess", stability |-> stability, controller |-> controller,
     report |-> report]

(* A program that has constructed a RiskAnalyzer. *)
InitRisk ==
    /\ dbe_state = DBEState(50, 50, 0)
    /\ plasma_state = PlasmaState
    /\ sim = Simulation("idle")
    /\ calls = 0
    /\ events = 0
    /\ last = NoCall(dbe_state, plasma_state)
    /\ API_KEY = ""
    /\ NotConstructed

(* The record of a decide call on a controller constructed just before:    *)
(* the fields given to the constructor, the stability, what was raised     *)
(* (by the constructor or by decide), and the decision and controller      *)
(* when there are any.                                                     *)
DecideCall(given, stability, raised, constructed, outcome) ==
    [op |-> "decide", given |-> given, stability |-> stability,
     raised |-> raised, constructed |-> constructed, outcome |-> outcome]

(* The record of a fire call: its arguments, what it returned, the         *)
(* injector and profile before it, and whether an earlier call of this     *)
(* injector was injected.                                                  *)
FireCall(current_time, size, returned, injected_before) ==
    [op |-> "fire", current_time |-> current_time, size |-> size,
     returned |-> returned, injected_before |-> injected_before,
     pre_injector |-> pellet_injector, pre_T |-> transport.T_keV]

(* A fresh PelletInjector and a simulator with a temperature profile.      *)
InitPellet ==
    /\ dbe_state = DBEState(50, 50, 0)
    /\ plasma_state = PlasmaState
    /\ sim = Simulation("idle")
    /\ calls = 0
    /\ events = 0
    /\ last = [op |-> "none", current_time |-> 0, returned |-> FALSE,
               injected_before |-> FALSE]
    /\ API_KEY = ""
    /\ \E T_keV \in PelletProfiles :
         transport = [constructed |-> TRUE, T_keV |-> T_keV]
    /\ \E rate \in PelletRates :
         pellet_injector = [constructed |-> TRUE] @@ PelletInjector(rate, Scale)
    /\ threads = <<>>

(* A clock and the time at which its sync_delay is asked for.              *)
InitClock ==
    /\ dbe_state = DBEState(50, 50, 0)
    /\ plasma_state = PlasmaState
    /\ sim = Simulation("idle")
    /\ calls = 0
    /\ events = 0
    /\ \E tick_ns \in ClockTicks, start_time \in ClockStarts,
          current_time \in ClockTimes :
         last = [op |-> "none",
                 clock |-> [tick_ns |-> tick_ns, start_time |-> start_time],
                 current_time |-> current_time]
    /\ API_KEY = ""
    /\ NotConstructed

(* An encoder and the data it is given.                                    *)
InitEncoder ==
    /\ dbe_state = DBEState(50, 50, 0)
    /\ plasma_state = PlasmaState
    /\ sim = Simulation("idle")
    /\ calls = 0
    /\ events = 0
    /\ \E compression_factor \in EncoderFactors, data \in EncoderData :
         last = [op |-> "none", compression_factor |-> compression_factor,
                 data |-> data]
    /\ API_KEY = ""
    /\ NotConstructed

(* The record of a run_until call: its arguments and the time and          *)
(* stability of the plasma when it was entered.                            *)
RunUntilCall(end_time, dt) ==
    [op |-> "run_until", end_time |-> end_time, dt |-> dt,
     pre_time |-> transport.time, pre_stability |-> transport.stability]

(* A TransportSimulator on a plasma state with the analytic profile or a   *)
(* flat one; pc is the position of its caller in run_until.                *)
InitTransport ==
    /\ dbe_state = DBEState(50, 50, 0)
    /\ plasma_state = PlasmaState
    /\ sim = Simulation("idle")
    /\ calls = 0
    /\ events = 0
    /\ last = [op |-> "none", end_time |-> 0, dt |-> 0]
    /\ API_KEY = ""
    /\ \E stability \in TransportStabilities,
          T_keV \in {initialize_profiles(Scale, GridPoints).T_keV,
                     FlatProfile} :
         transport = [constructed |-> TRUE, pc |-> "idle"]
                         @@ [initialize_profiles(Scale, GridPoints) EXCEPT
                                !.T_keV = T_keV,
                                !.stability = stability]
    /\ pellet_injector = [constructed |-> FALSE]
    /\ threads = <<>>

(* The arguments of the simulate_event call of thread i: allocations and   *)
(* engage flags that differ from thread to thread.                         *)
ThreadArguments(i) ==
    [qubits |-> 10 * i, memory |-> 100 - 30 * i,
     engage_time_crystal |-> i % 2 = 1, engage_compression |-> i % 2 = 1,
     gamma |-> 15000, alpha |-> SimAlpha, beta |-> SimBeta]

LockModes == {"lock", "none"}

(* The threads that call simulate_event on the shared state objects.       *)
Threads == {1, 2}

(* A thread before its call of simulate_event: its position, its           *)
(* arguments, and its local variables, which get their values when the     *)
(* statements that assign them run; seen is the DBE state that its         *)
(* compute_metrics read.                                                   *)
ThreadObject(i) ==
    [pc |-> "idle", args |-> ThreadArguments(i),
     seen |-> DBEState(0, 0, 0),
     response_time |-> 0, stability_score |-> 0, mitigation_prob |-> 0,
     execute |-> FALSE, success |-> FALSE, new_stability |-> 0,
     Q_current |-> 0, Q_baseline |-> 0, loaded |-> 0]

(* Threads that share one DBEState and one PlasmaState and call            *)
(* simulate_event on them once each, either all inside one lock of the     *)
(* caller or with no lock; holder is the thread inside the lock, 0 if none.*)
InitThreads ==
    /\ dbe_state = DBEState(50, 50, 0)
    /\ plasma_state = PlasmaState
    /\ sim = Simulation("idle")
    /\ calls = 0
    /\ events = 0
    /\ last = NoCall(dbe_state, plasma_state)
    /\ API_KEY = ""
    /\ transport = [constructed |-> FALSE]
    /\ pellet_injector = [constructed |-> FALSE]
    /\ \E mode \in LockModes :
         threads = [mode |-> mode, holder |-> 0,
                    t |-> [i \in Threads |-> ThreadObject(i)]]

(* State objects of a caller that sets the heating power of its plasma.    *)
InitPlasma(heating) ==
    /\ dbe_state = DBEState(50, 50, 0)
    /\ \E h \in heating :
         plasma_state = [PlasmaState EXCEPT !.heating_power = h]
    /\ sim = Simulation("idle")
    /\ calls = 0
    /\ events = 0
    /\ last = NoCall(dbe_state, plasma_state)
    /\ API_KEY = ""
    /\ NotConstructed

InitGain == InitPlasma(GainHeating)

InitHeatingPower == InitPlasma(InitHeating)

----------------------------------------------------------------------------
(* Actions *)

CallerOwnsState == sim.pc \in {"idle", "done"}

(* A direct call of DBEState.reallocate_resources. *)
Reallocate ==
    /\ CallerOwnsState
    /\ calls < MaxEvents
    /\ \E qubits \in QubitInputs, memory \in MemoryInputs :
         /\ dbe_state' = reallocate_resources(dbe_state, qubits, memory)
         /\ last' = Call("reallocate_resources",
                         IF RaisesValueError(dbe_state, qubits, memory)
                         THEN "ValueError" ELSE "none",
                         qubits, memory, 0, 0, FALSE, FALSE, 0,
                         dbe_state, plasma_state)
    /\ calls' = calls + 1
    /\ UNCHANGED <<plasma_state, sim, events, API_KEY, dbe_vars>>

(* Variant: the metrics are computed before the allocations and toggles   *)
(* of the call are applied.                                               *)
SimulateEventWith_metrics_first(gammas, alphas, betas, allocs, executes, bound) ==
    /\ CallerOwnsState
    /\ calls < bound
    /\ \E gamma \in gammas, alpha \in alphas, beta \in betas,
          a \in allocs, tc \in BOOLEAN, co \in BOOLEAN,
          execute \in executes :
         IF RaisesValueError(dbe_state, a[1], a[2])
         THEN /\ last' = EventCall(
                              Call("simulate_event", "ValueError", a[1], a[2],
                                   gamma, beta, execute, FALSE, 0,
                                   dbe_state, plasma_state), alpha, tc, co)
              /\ UNCHANGED <<dbe_state, plasma_state, events>>
         ELSE
           \E d \in {toggle_compression(
                         toggle_time_crystal(
                             reallocate_resources(dbe_state, a[1], a[2]), tc),
                         co)} :
           \E met \in {compute_metrics(dbe_state)} :
           \E draw \in IF execute THEN Draws ELSE {0} :
           \E success \in {execute /\ draw < met.mitigation_success_prob} :
           \E p \in {update_tau_e(plasma_state, met.stability_score, alpha)} :
           \E p2 \in {[p EXCEPT !.stability =
                          resolve_stability(p, success, execute, gamma, beta,
                                            met.response_time)]} :
             /\ dbe_state' = IF success THEN learn_from_event(d) ELSE d
             /\ plasma_state' = IF p2.heating_power = 0 THEN p2
                                ELSE accumulate_Q(p2)
             /\ events' = events + 1
             /\ last' = EventCall(
                             Call("simulate_event",
                                  IF p2.heating_power = 0
                                  THEN "ZeroDivisionError" ELSE "none",
                                  a[1], a[2], gamma, beta, execute, success,
                                  met.mitigation_success_prob,
                                  dbe_state, plasma_state), alpha, tc, co)
    /\ calls' = calls + 1
    /\ UNCHANGED <<sim, API_KEY, dbe_vars>>

(* Variant: a call whose gain step raises restores both state objects.    *)
SimulateEventWith_rollback(gammas, alphas, betas, allocs, executes, bound) ==
    /\ CallerOwnsState
    /\ calls < bound
    /\ \E gamma \in gammas, alpha \in alphas, beta \in betas,
          a \in allocs, tc \in BOOLEAN, co \in BOOLEAN,
          execute \in executes :
         IF RaisesValueError(dbe_state, a[1], a[2])
         THEN /\ last' = EventCall(
                              Call("simulate_event", "ValueError", a[1], a[2],
                                   gamma, beta, execute, FALSE, 0,
                                   dbe_state, plasma_state), alpha, tc, co)
              /\ UNCHANGED <<dbe_state, plasma_state, events>>
         ELSE
           \E d \in {toggle_compression(
                         toggle_time_crystal(
                             reallocate_resources(dbe_state, a[1], a[2]), tc),
                         co)} :
           \E met \in {compute_metrics(d)} :
           \E draw \in IF execute THEN Draws ELSE {0} :
           \E success \in {execute /\ draw < met.mitigation_success_prob} :
           \E p \in {update_tau_e(plasma_state, met.stability_score, alpha)} :
           \E p2 \in {[p EXCEPT !.stability =
                          resolve_stability(p, success, execute, gamma, beta,
                                            met.response_time)]} :
             /\ dbe_state' = IF p2.heating_power = 0 THEN dbe_state
                             ELSE IF success THEN learn_from_event(d) ELSE d
             /\ plasma_state' = IF p2.heating_power = 0 THEN plasma_state
                                ELSE accumulate_Q(p2)
             /\ events' = events + 1
             /\ last' = EventCall(
                             Call("simulate_event",
                                  IF p2.heating_power = 0
                                  THEN "ZeroDivisionError" ELSE "none",
                                  a[1], a[2], gamma, beta, execute, success,
                                  met.mitigation_success_prob,
                                  dbe_state, plasma_state), alpha, tc, co)
    /\ calls' = calls + 1
    /\ UNCHANGED <<sim, API_KEY, dbe_vars>>

(* One call of simulate_event with arguments from the given sets, its      *)
(* statements in order; each intermediate value is bound once.  The random *)
(* draw exists only in a call that executes the mitigation; calls counts   *)
(* the calls made, events those that got past the allocation check.        *)
SimulateEventWith(gammas, alphas, betas, allocs, executes, bound) ==
    /\ CallerOwnsState
    /\ calls < bound
    /\ \E gamma \in gammas, alpha \in alphas, beta \in betas,
          a \in allocs, tc \in BOOLEAN, co \in BOOLEAN,
          execute \in executes :
         IF RaisesValueError(dbe_state, a[1], a[2])
         THEN /\ last' = EventCall(
                              Call("simulate_event", "ValueError", a[1], a[2],
                                   gamma, beta, execute, FALSE, 0,
                                   dbe_state, plasma_state), alpha, tc, co)
              /\ UNCHANGED <<dbe_state, plasma_state, events>>
         ELSE
           \E d \in {toggle_compression(
                         toggle_time_crystal(
                             reallocate_resources(dbe_state, a[1], a[2]), tc),
                         co)} :
           \E met \in {compute_metrics(d)} :
           \E draw \in IF execute THEN Draws ELSE {0} :
           \E success \in {execute /\ draw < met.mitigation_success_prob} :
           \E p \in {update_tau_e(plasma_state, met.stability_score, alpha)} :
           \E p2 \in {[p EXCEPT !.stability =
                          resolve_stability(p, success, execute, gamma, beta,
                                            met.response_time)]} :
             /\ dbe_state' = IF success THEN learn_from_event(d) ELSE d
             /\ plasma_state' = IF p2.heating_power = 0 THEN p2
                                ELSE accumulate_Q(p2)
             /\ events' = events + 1
             /\ last' = EventCall(
                             Call("simulate_event",
                                  IF p2.heating_power = 0
                                  THEN "ZeroDivisionError" ELSE "none",
                                  a[1], a[2], gamma, beta, execute, success,
                                  met.mitigation_success_prob,
                                  dbe_state, plasma_state), alpha, tc, co)
    /\ calls' = calls + 1
    /\ UNCHANGED <<sim, API_KEY, dbe_vars>>

SimulateEvent ==
    SimulateEventWith(Gammas, Alphas, Betas, EventAllocs, BOOLEAN, MaxEvents)

(* A simulate_event call made on the Simulation's state objects after      *)
(* Simulation.run has returned.                                            *)
LaterEvent ==
    /\ sim.pc = "done"
    /\ SimulateEventWith({15000}, {SimAlpha}, {SimBeta}, {<<50, 50>>},
                         BOOLEAN, MaxLaterCalls)

(* A simulate_event call with execute_mitigation=False, gamma_physical=1.5 *)
UnmitigatedEvent ==
    SimulateEventWith({15000}, Alphas, Betas, EventAllocs, {FALSE},
                      MaxDecayCalls)

(* One iteration of the loop of Simulation.run, up to the break test.  The *)
(* allocation prompt repeats until reallocate_resources accepts the pair;  *)
(* the metrics in force at the final decision are those recomputed after   *)
(* the last change of the DBE state.                                       *)
RunEvent ==
    /\ sim.pc = "loop"
    /\ \E gamma \in RunGammas, qubits \in QubitInputs, memory \in MemoryInputs,
          engage_tc \in BOOLEAN, engage_co \in BOOLEAN, execute \in BOOLEAN :
         /\ ~RaisesValueError(dbe_state, qubits, memory)
         /\ \E d1 \in {reallocate_resources(dbe_state, qubits, memory)} :
            \E d \in {run_engage_compression(
                          run_engage_time_crystal(d1, engage_tc), engage_co)} :
            \E met \in {compute_metrics(d)} :
            \E draw \in IF execute THEN Draws ELSE {0} :
            \E success \in {execute /\ draw < met.mitigation_success_prob} :
            \E p \in {update_tau_e(plasma_state, met.stability_score,
                                   sim.alpha)} :
            \E p2 \in {[p EXCEPT !.stability =
                           run_resolve_stability(p, success, execute, gamma,
                                                 sim.beta, met.response_time)]} :
              /\ dbe_state' = IF success THEN learn_from_event(d) ELSE d
              /\ plasma_state' = accumulate_Q(p2)
              /\ sim' = [sim EXCEPT
                            !.event_number = @ + 1,
                            !.pc = run_next_pc(p2.stability,
                                               sim.event_number + 1,
                                               sim.num_events)]
    /\ events' = events + 1
    /\ UNCHANGED <<calls, last, API_KEY, dbe_vars>>

(* The end-of-simulation summary of Simulation.run, after which run        *)
(* returns and the caller has the state objects.                           *)
RunSummary ==
    /\ sim.pc = "summary"
    /\ sim' = [sim EXCEPT !.pc = "done"]
    /\ UNCHANGED <<dbe_state, plasma_state, calls, events, last, API_KEY, dbe_vars>>

(* A simulate_event call whose alpha may be negative. *)
GainEvent ==
    SimulateEventWith({15000}, GainAlphas, {SimBeta}, {<<50, 50>>}, BOOLEAN,
                      MaxGainCalls)

(* A simulate_event call on a plasma whose heating power the caller set.   *)
HeatingEvent ==
    SimulateEventWith({15000}, Alphas, {SimBeta}, {<<50, 50>>}, BOOLEAN,
                      MaxHeatingCalls)

(* A direct call of DBEState.compute_metrics, which changes no state.      *)
ComputeMetrics ==
    /\ CallerOwnsState
    /\ calls < MaxMetricsCalls
    /\ \E raised \in {compute_metrics_raises(dbe_state)} :
       \E result \in {IF raised = "none" THEN compute_metrics(dbe_state)
                      ELSE <<>>} :
         last' = MetricsCall(raised, result, dbe_state, plasma_state)
    /\ calls' = calls + 1
    /\ UNCHANGED <<dbe_state, plasma_state, sim, events, API_KEY, dbe_vars>>

(* A POST to /simulate. *)
PostSimulate ==
    /\ calls < MaxApiCalls
    /\ \E req \in ApiRequests, x_api_key \in ApiKeys :
         last' = ApiCall("simulate", x_api_key, req,
                         simulate(req, x_api_key))
    /\ calls' = calls + 1
    /\ UNCHANGED <<dbe_state, plasma_state, sim, events, API_KEY, dbe_vars>>

(* A POST to /simulate_batch. *)
PostSimulateBatch ==
    /\ calls < MaxApiCalls
    /\ \E runs \in Batches(MaxBatch), x_api_key \in ApiKeys :
         last' = ApiCall("simulate_batch", x_api_key, runs,
                         simulate_batch(runs, x_api_key))
    /\ calls' = calls + 1
    /\ UNCHANGED <<dbe_state, plasma_state, sim, events, API_KEY, dbe_vars>>

(* A call of RiskAnalyzer().assess on a plasma state with the given        *)
(* stability and a controller object with the given attributes.            *)
Assess ==
    /\ calls < MaxRiskCalls
    /\ \E stability \in RiskStabilities, coil \in RiskCoils,
          pellet \in RiskPellets, memory \in RiskMemories :
         \E controller \in {[rmp_coil |-> coil, pellet_injector |-> pellet,
                             memory |-> memory]} :
           last' = AssessCall(stability, controller,
                              assess(RiskAnalyzer, stability, controller))
    /\ calls' = calls + 1
    /\ UNCHANGED <<dbe_state, plasma_state, sim, events, API_KEY, dbe_vars>>

(* A caller constructs a DBEController and calls decide on it once.        *)
ConstructAndDecide ==
    /\ calls < MaxControllerCalls
    /\ \E given \in ControllerGiven, I_max \in ControllerCoils,
          stability \in ControllerStabilities :
         \E made \in {DBEController(given, IF given = {} THEN Scale
                                           ELSE I_max)} :
           IF made.raised # "none"
           THEN last' = DecideCall(given, stability, made.raised, FALSE, made)
           ELSE \E outcome \in {decide(made.controller, stability,
                                       WallClock)} :
                  last' = DecideCall(given, stability, outcome.raised, TRUE,
                                     outcome)
    /\ calls' = calls + 1
    /\ UNCHANGED <<dbe_state, plasma_state, sim, events, API_KEY, dbe_vars>>

(* One call of pellet_injector.fire(sim, current_time, size), at a time    *)
(* not before the time of the previous call.                               *)
Fire ==
    /\ calls < MaxPelletCalls
    /\ \E current_time \in PelletTimes, size \in PelletSizes :
         /\ current_time >= last.current_time
         /\ \E out \in {fire(pellet_injector, transport.T_keV,
                             current_time, size)} :
              /\ pellet_injector' = out.injector
              /\ transport' = [transport EXCEPT !.T_keV = out.T_keV]
              /\ last' = FireCall(current_time, size, out.returned,
                                  last.injected_before \/ last.returned)
    /\ calls' = calls + 1
    /\ UNCHANGED <<dbe_state, plasma_state, sim, events, API_KEY, threads>>

(* clock.sync_delay(current_time_s) *)
SyncDelay ==
    /\ last.op = "none"
    /\ last' = [last EXCEPT !.op = "sync_delay"]
                   @@ [delay |-> sync_delay(last.clock, last.current_time)]
    /\ calls' = calls + 1
    /\ UNCHANGED <<dbe_state, plasma_state, sim, events, API_KEY, dbe_vars>>

(* compressed = encoder.encode(data) *)
Encode ==
    /\ last.op = "none"
    /\ last' = [last EXCEPT !.op = "encode"]
                   @@ [compressed |-> encode(last.compression_factor,
                                             last.data)]
    /\ calls' = calls + 1
    /\ UNCHANGED <<dbe_state, plasma_state, sim, events, API_KEY, dbe_vars>>

(* encoder.decode(compressed, len(data)) *)
Decode ==
    /\ last.op = "encode"
    /\ last' = [last EXCEPT !.op = "decode"]
                   @@ [decoded |-> decode(last.compressed, Len(last.data))]
    /\ calls' = calls + 1
    /\ UNCHANGED <<dbe_state, plasma_state, sim, events, API_KEY, dbe_vars>>

(* sim.run_until(end_time, dt) is entered with dt > 0. *)
RunUntil ==
    /\ transport.pc = "idle"
    /\ \E end_time \in EndTimes, dt \in TimeSteps :
         last' = RunUntilCall(end_time, dt)
    /\ transport' = [transport EXCEPT !.pc = "loop"]
    /\ calls' = calls + 1
    /\ UNCHANGED <<dbe_state, plasma_state, sim, events, API_KEY,
                   pellet_injector, threads>>

(* The loop test holds: one step, and an ELM when the edge gradient asks   *)
(* for it.                                                                 *)
RunUntilStep ==
    /\ transport.pc = "loop"
    /\ run_until_continues(transport, last.end_time)
    /\ transport' = run_until_body(transport, last.dt)
    /\ UNCHANGED <<dbe_state, plasma_state, sim, calls, events, last, API_KEY,
                   pellet_injector, threads>>

(* The loop test fails: run_until returns. *)
RunUntilReturn ==
    /\ transport.pc = "loop"
    /\ ~run_until_continues(transport, last.end_time)
    /\ transport' = [transport EXCEPT !.pc = "returned"]
    /\ UNCHANGED <<dbe_state, plasma_state, sim, calls, events, last, API_KEY,
                   pellet_injector, threads>>

(* The statements of simulate_event as run by thread i, one action per     *)
(* statement; an augmented assignment is a load and a store.               *)
ThreadAt(i, pc) == threads.t[i].pc = pc

ThreadFrame == <<sim, calls, events, last, API_KEY, transport, pellet_injector>>

(* Variant: a thread enters without waiting for the lock. *)
Enter_without_waiting(i) ==
    /\ ThreadAt(i, "idle")
    /\ threads' = [threads EXCEPT
                      !.holder = IF threads.mode = "lock" THEN i ELSE @,
                      !.t[i].pc = "reallocate_resources"]
    /\ UNCHANGED <<dbe_state, plasma_state, ThreadFrame>>

(* Thread i calls simulate_event, first taking the lock when the callers   *)
(* use one.                                                                *)
Enter(i) ==
    /\ ThreadAt(i, "idle")
    /\ threads.mode = "lock" => threads.holder = 0
    /\ threads' = [threads EXCEPT
                      !.holder = IF threads.mode = "lock" THEN i ELSE @,
                      !.t[i].pc = "reallocate_resources"]
    /\ UNCHANGED <<dbe_state, plasma_state, ThreadFrame>>

ThreadReallocate(i) ==
    /\ ThreadAt(i, "reallocate_resources")
    /\ dbe_state' = reallocate_resources(dbe_state, threads.t[i].args.qubits,
                                         threads.t[i].args.memory)
    /\ threads' = [threads EXCEPT !.t[i].pc = "toggle_time_crystal"]
    /\ UNCHANGED <<plasma_state, ThreadFrame>>

ThreadToggleTimeCrystal(i) ==
    /\ ThreadAt(i, "toggle_time_crystal")
    /\ dbe_state' = toggle_time_crystal(dbe_state,
                                        threads.t[i].args.engage_time_crystal)
    /\ threads' = [threads EXCEPT !.t[i].pc = "toggle_compression"]
    /\ UNCHANGED <<plasma_state, ThreadFrame>>

ThreadToggleCompression(i) ==
    /\ ThreadAt(i, "toggle_compression")
    /\ dbe_state' = toggle_compression(dbe_state,
                                       threads.t[i].args.engage_compression)
    /\ threads' = [threads EXCEPT !.t[i].pc = "compute_metrics"]
    /\ UNCHANGED <<plasma_state, ThreadFrame>>

ThreadComputeMetrics(i) ==
    /\ ThreadAt(i, "compute_metrics")
    /\ \E met \in {compute_metrics(dbe_state)} :
         threads' = [threads EXCEPT
                        !.t[i].seen = dbe_state,
                        !.t[i].response_time = met.response_time,
                        !.t[i].stability_score = met.stability_score,
                        !.t[i].mitigation_prob = met.mitigation_success_prob,
                        !.t[i].pc = "update_tau_e"]
    /\ UNCHANGED <<dbe_state, plasma_state, ThreadFrame>>

ThreadUpdateTauE(i) ==
    /\ ThreadAt(i, "update_tau_e")
    /\ plasma_state' = update_tau_e(plasma_state,
                                    threads.t[i].stability_score,
                                    threads.t[i].args.alpha)
    /\ threads' = [threads EXCEPT !.t[i].pc = "mitigate"]
    /\ UNCHANGED <<dbe_state, ThreadFrame>>

(* The branch on execute_mitigation up to the load of the stability: the   *)
(* draw, learn_from_event after a success, and the value that the          *)
(* assignment to plasma_state.stability is about to store.                 *)
ThreadMitigate(i) ==
    /\ ThreadAt(i, "mitigate")
    /\ \E execute \in BOOLEAN :
       \E draw \in IF execute THEN Draws ELSE {0} :
       \E success \in {execute /\ draw < threads.t[i].mitigation_prob} :
         /\ dbe_state' = IF success THEN learn_from_event(dbe_state)
                         ELSE dbe_state
         /\ threads' = [threads EXCEPT
                           !.t[i].execute = execute,
                           !.t[i].success = success,
                           !.t[i].new_stability =
                               resolve_stability(plasma_state, success,
                                                 execute,
                                                 threads.t[i].args.gamma,
                                                 threads.t[i].args.beta,
                                                 threads.t[i].response_time),
                           !.t[i].pc = "store_stability"]
    /\ UNCHANGED <<plasma_state, ThreadFrame>>

ThreadStoreStability(i) ==
    /\ ThreadAt(i, "store_stability")
    /\ plasma_state' = [plasma_state EXCEPT
                           !.stability = threads.t[i].new_stability]
    /\ threads' = [threads EXCEPT !.t[i].pc = "compute_Q"]
    /\ UNCHANGED <<dbe_state, ThreadFrame>>

ThreadComputeQ(i) ==
    /\ ThreadAt(i, "compute_Q")
    /\ threads' = [threads EXCEPT
                      !.t[i].Q_current = compute_Q(plasma_state).Q_current,
                      !.t[i].Q_baseline = compute_Q(plasma_state).Q_baseline,
                      !.t[i].pc = "load_cumulative_Q"]
    /\ UNCHANGED <<dbe_state, plasma_state, ThreadFrame>>

ThreadLoadQ(i) ==
    /\ ThreadAt(i, "load_cumulative_Q")
    /\ threads' = [threads EXCEPT
                      !.t[i].loaded = plasma_state.cumulative_Q,
                      !.t[i].pc = "store_cumulative_Q"]
    /\ UNCHANGED <<dbe_state, plasma_state, ThreadFrame>>

ThreadStoreQ(i) ==
    /\ ThreadAt(i, "store_cumulative_Q")
    /\ plasma_state' = [plasma_state EXCEPT
                           !.cumulative_Q =
                               threads.t[i].loaded + threads.t[i].Q_current]
    /\ threads' = [threads EXCEPT !.t[i].pc = "load_cumulative_Q_baseline"]
    /\ UNCHANGED <<dbe_state, ThreadFrame>>

ThreadLoadQBaseline(i) ==
    /\ ThreadAt(i, "load_cumulative_Q_baseline")
    /\ threads' = [threads EXCEPT
                      !.t[i].loaded = plasma_state.cumulative_Q_baseline,
                      !.t[i].pc = "store_cumulative_Q_baseline"]
    /\ UNCHANGED <<dbe_state, plasma_state, ThreadFrame>>

(* The last store of the call; the thread returns and gives up the lock.   *)
ThreadStoreQBaseline(i) ==
    /\ ThreadAt(i, "store_cumulative_Q_baseline")
    /\ plasma_state' = [plasma_state EXCEPT
                           !.cumulative_Q_baseline =
                               threads.t[i].loaded + threads.t[i].Q_baseline]
    /\ threads' = [threads EXCEPT
                      !.holder = IF threads.mode = "lock" THEN 0 ELSE @,
                      !.t[i].pc = "returned"]
    /\ UNCHANGED <<dbe_state, ThreadFrame>>

Next == Reallocate \/ SimulateEvent

Spec == Init /\ [][Next]_vars

NextRun == RunEvent \/ RunSummary \/ LaterEvent

SpecRun == InitRun /\ [][NextRun]_vars

NextDecay == UnmitigatedEvent

SpecDecay == InitDecay /\ [][NextDecay]_vars

NextGain == GainEvent

SpecGain == InitGain /\ [][NextGain]_vars

NextMetrics == ComputeMetrics

SpecMetrics == InitMetrics /\ [][NextMetrics]_vars

NextApi == PostSimulate \/ PostSimulateBatch

SpecApi == InitApi /\ [][NextApi]_vars

NextRisk == Assess

SpecRisk == InitRisk /\ [][NextRisk]_vars

NextController == ConstructAndDecide

SpecController == InitRisk /\ [][NextController]_vars

NextPellet == Fire

SpecPellet == InitPellet /\ [][NextPellet]_vars

NextClock == SyncDelay

SpecClock == InitClock /\ [][NextClock]_vars

NextEncoder == Encode \/ Decode

SpecEncoder == InitEncoder /\ [][NextEncoder]_vars

NextTransport == RunUntil \/ RunUntilStep \/ RunUntilReturn

(* The caller of run_until is a running thread: a step of the loop that    *)
(* can be taken is taken.                                                  *)
SpecTransport ==
    /\ InitTransport
    /\ [][NextTransport]_vars
    /\ WF_vars(RunUntilStep)
    /\ WF_vars(RunUntilReturn)

NextThreads ==
    \E i \in Threads :
        \/ Enter(i)
        \/ ThreadReallocate(i)
        \/ ThreadToggleTimeCrystal(i)
        \/ ThreadToggleCompression(i)
        \/ ThreadComputeMetrics(i)
        \/ ThreadUpdateTauE(i)
        \/ ThreadMitigate(i)
        \/ ThreadStoreStability(i)
        \/ ThreadComputeQ(i)
        \/ ThreadLoadQ(i)
        \/ ThreadStoreQ(i)
        \/ ThreadLoadQBaseline(i)
        \/ ThreadStoreQBaseline(i)

SpecThreads == InitThreads /\ [][NextThreads]_vars

NextHeating == HeatingEvent

SpecHeating == InitHeatingPower /\ [][NextHeating]_vars

----------------------------------------------------------------------------
(* Properties *)

(* C1: after any sequence of reallocate_resources and simulate_event       *)
(* calls, accepted or rejected, both allocations lie within their pools.   *)
AllocationsWithinPools ==
    /\ 0 <= dbe_state.qubits_for_detection
    /\ dbe_state.qubits_for_detection <= dbe_state.qubits_total
    /\ 0 <= dbe_state.memory_for_state
    /\ dbe_state.memory_for_state <= dbe_state.memory_total

(* An accepted call that moved both allocations, made after another call.  *)
AcceptedMoveWitness ==
    /\ calls = 2
    /\ last.raised = "none"
    /\ last.pre_dbe.qubits_for_detection = 5
    /\ last.pre_dbe.memory_for_state = 0
    /\ dbe_state.qubits_for_detection = 50
    /\ dbe_state.memory_for_state = 50

(* C2: reallocate_resources raises and keeps both allocations when either  *)
(* argument is out of range, and otherwise replaces both together.         *)
ReallocateAllOrNothing ==
    last.op = "reallocate_resources" =>
        IF \/ last.qubits < 0 \/ last.qubits > last.pre_dbe.qubits_total
           \/ last.memory < 0 \/ last.memory > last.pre_dbe.memory_total
        THEN /\ last.raised = "ValueError"
             /\ dbe_state = last.pre_dbe
        ELSE /\ last.raised = "none"
             /\ dbe_state = [last.pre_dbe EXCEPT
                                !.qubits_for_detection = last.qubits,
                                !.memory_for_state = last.memory]

(* A rejected pair whose qubit argument alone would have been accepted and *)
(* would have changed the allocation.                                      *)
PartlyValidPairWitness ==
    /\ last.op = "reallocate_resources"
    /\ last.raised = "ValueError"
    /\ last.qubits = 50
    /\ last.memory = -1
    /\ last.pre_dbe.qubits_for_detection = 5
    /\ dbe_state.qubits_for_detection = 5

(* C3: a simulate_event call with an out-of-range allocation raises and    *)
(* leaves every field of both state objects as it was.                     *)
EventAbortsAtomically ==
    /\ last.op = "simulate_event"
    /\ \/ last.qubits < 0 \/ last.qubits > last.pre_dbe.qubits_total
       \/ last.memory < 0 \/ last.memory > last.pre_dbe.memory_total
    => /\ last.raised = "ValueError"
       /\ dbe_state = last.pre_dbe
       /\ plasma_state = last.pre_plasma

(* An aborted event on state objects that an earlier event has changed.    *)
AbortedEventWitness ==
    /\ last.op = "simulate_event"
    /\ last.raised = "ValueError"
    /\ last.memory = -1
    /\ events = 1
    /\ dbe_state.time_crystal_engaged
    /\ dbe_state.stability_gain = learn_increment
    /\ plasma_state.cumulative_Q > 0

(* C4 as claimed: stability stays between 0 and its starting maximum for   *)
(* any gamma_physical.                                                     *)
StabilityWithinZeroAndMax ==
    /\ 0 <= plasma_state.stability
    /\ plasma_state.stability <= stability_default

(* C4 as amended: stability is never below 0, and an event with            *)
(* gamma_physical >= 0 never raises it.                                    *)
StabilityClampedAtZero ==
    /\ 0 <= plasma_state.stability
    /\ (last.op = "simulate_event" /\ last.gamma >= 0
            => plasma_state.stability <= last.pre_plasma.stability)

(* An unmitigated event whose loss exceeds the stability that was left.    *)
LossBeyondStabilityWitness ==
    /\ last.op = "simulate_event"
    /\ last.raised = "none"
    /\ ~last.execute
    /\ last.pre_plasma.stability > 0
    /\ last.gamma * loss_factor > last.pre_plasma.stability
    /\ plasma_state.stability = 0

(* C5 as claimed: once stability is <= 0 no step changes the learning      *)
(* bonus, the confinement time or the accumulators.                        *)
TerminalOnceDisrupted ==
    [][plasma_state.stability <= 0 =>
         /\ dbe_state'.stability_gain = dbe_state.stability_gain
         /\ plasma_state'.tau_e_current = plasma_state.tau_e_current
         /\ plasma_state'.cumulative_Q = plasma_state.cumulative_Q
         /\ plasma_state'.cumulative_Q_baseline =
                plasma_state.cumulative_Q_baseline]_vars

(* C5 as amended: once stability is <= 0 the loop of Simulation.run        *)
(* processes no further event, while a simulate_event call made after the  *)
(* run still adds to both accumulators.                                    *)
RunStopsOnceDisrupted ==
    [][plasma_state.stability <= 0 =>
         /\ sim.pc # "done" => UNCHANGED <<dbe_state, plasma_state>>
         /\ sim.pc = "done" /\ events' # events =>
              /\ plasma_state'.cumulative_Q > plasma_state.cumulative_Q
              /\ plasma_state'.cumulative_Q_baseline >
                     plasma_state.cumulative_Q_baseline]_vars

(* The loop has broken on a disruption before its last event.              *)
DisruptedRunWitness ==
    /\ plasma_state.stability = 0
    /\ sim.pc = "summary"
    /\ sim.event_number < sim.num_events

(* C6: from stability 100, unmitigated events with gamma_physical = 1.5    *)
(* give 100, 70, 40, 10 and then 0 on every later call.                    *)
DecayByThirty ==
    plasma_state.stability = Max(0, stability_default - 30 * Scale * events)

(* The fifth event, entered with stability already 0.                      *)
StaysAtZeroWitness ==
    /\ events = 5
    /\ last.raised = "none"
    /\ last.pre_plasma.stability = 0
    /\ plasma_state.stability = 0

(* C7: an event without mitigation loses gamma_physical * 20 whatever beta *)
(* is, reports no success and leaves the learning bonus alone.             *)
UnmitigatedLoss ==
    last.op = "simulate_event" /\ last.raised = "none" /\ ~last.execute =>
        /\ plasma_state.stability =
               Max(0, last.pre_plasma.stability - 20 * last.gamma)
        /\ ~last.success
        /\ dbe_state.stability_gain = last.pre_dbe.stability_gain

(* An unmitigated event with beta > 0 that leaves stability above 0.       *)
UnmitigatedWithBetaWitness ==
    /\ last.op = "simulate_event"
    /\ last.raised = "none"
    /\ ~last.execute
    /\ last.beta > 0
    /\ last.gamma > 0
    /\ plasma_state.stability > 0
    /\ plasma_state.stability < last.pre_plasma.stability

(* The stability the last call would have written had its mitigation been  *)
(* attempted and failed with the given beta.                               *)
FailedStability(beta) ==
    resolve_stability(last.pre_plasma, FALSE, TRUE, last.gamma, beta,
                      compute_metrics(dbe_state).response_time)

(* C8 as claimed: with beta > 0 an unmitigated event ends with a stability *)
(* different from that of the attempted and failed mitigation.             *)
UnmitigatedDiffersFromFailed ==
    last.op = "simulate_event" /\ last.raised = "none" /\ ~last.execute =>
        \A beta \in Betas :
            beta > 0 => plasma_state.stability # FailedStability(beta)

(* C8 as amended: the two differ when gamma_physical is not 0 and the      *)
(* failed mitigation would leave stability above 0.                        *)
UnmitigatedDiffersUnlessClamped ==
    last.op = "simulate_event" /\ last.raised = "none" /\ ~last.execute =>
        \A beta \in Betas :
            beta > 0 /\ last.gamma # 0 /\ FailedStability(beta) > 0 =>
                plasma_state.stability # FailedStability(beta)

(* An unmitigated event that ends below the failed mitigation's result.    *)
BelowFailedWitness ==
    /\ last.op = "simulate_event"
    /\ last.raised = "none"
    /\ ~last.execute
    /\ last.gamma > 0
    /\ \E beta \in Betas :
         /\ beta > 0
         /\ FailedStability(beta) > 0
         /\ plasma_state.stability < FailedStability(beta)

(* C9: a successful mitigation lowers stability by min(5, stability) and   *)
(* sets the learning bonus to min(0.5, bonus + 0.02).                      *)
SuccessDipAndLearning ==
    last.op = "simulate_event" /\ last.raised = "none" /\ last.success =>
        /\ plasma_state.stability =
               last.pre_plasma.stability
                   - Min(5 * Scale, last.pre_plasma.stability)
        /\ dbe_state.stability_gain =
               Min(5000, last.pre_dbe.stability_gain + 200)

(* A success entered with less than 5 points of stability left.            *)
SuccessNearZeroWitness ==
    /\ last.op = "simulate_event"
    /\ last.success
    /\ last.gamma > 0
    /\ last.pre_plasma.stability > 0
    /\ last.pre_plasma.stability < 5 * Scale
    /\ plasma_state.stability = 0

(* C10: the learning bonus stays in [0, 0.5], never decreases, and changes *)
(* only in an event whose mitigation was attempted and succeeded.          *)
LearningBonusMonotone ==
    /\ 0 <= dbe_state.stability_gain
    /\ dbe_state.stability_gain <= 5000
    /\ dbe_state.stability_gain >= last.pre_dbe.stability_gain
    /\ (dbe_state.stability_gain # last.pre_dbe.stability_gain =>
            last.op = "simulate_event" /\ last.execute /\ last.success)

(* A success entered with the bonus already at its cap.                    *)
BonusAtCapWitness ==
    /\ last.op = "simulate_event"
    /\ last.success
    /\ last.pre_dbe.stability_gain = 5000
    /\ dbe_state.stability_gain = 5000

(* C11: every completed simulate_event adds the pair (Q_current,           *)
(* Q_baseline) of that call to the accumulators, whatever the mitigation   *)
(* outcome; an aborted call and a bare reallocation add nothing; nothing   *)
(* resets them, so after k completed events on the default plasma the      *)
(* baseline total is k baseline terms.                                     *)
AccumulatorsAdditive ==
    /\ (last.op = "simulate_event" /\ last.raised = "none" =>
          /\ plasma_state.cumulative_Q =
                 last.pre_plasma.cumulative_Q
                     + compute_Q(plasma_state).Q_current
          /\ plasma_state.cumulative_Q_baseline =
                 last.pre_plasma.cumulative_Q_baseline
                     + compute_Q(plasma_state).Q_baseline)
    /\ (last.raised = "ValueError" \/ last.op = "reallocate_resources" =>
          /\ plasma_state.cumulative_Q = last.pre_plasma.cumulative_Q
          /\ plasma_state.cumulative_Q_baseline =
                 last.pre_plasma.cumulative_Q_baseline)
    /\ plasma_state.cumulative_Q_baseline
           = events * compute_Q(PlasmaState).Q_baseline

(* A second completed event, its mitigation attempted and failed, that     *)
(* added a term larger than the baseline term to a total already above 0.  *)
SecondTermAddedWitness ==
    /\ events = 2
    /\ last.op = "simulate_event"
    /\ last.raised = "none"
    /\ last.execute
    /\ ~last.success
    /\ last.pre_plasma.cumulative_Q > 0
    /\ plasma_state.cumulative_Q
           > last.pre_plasma.cumulative_Q + compute_Q(PlasmaState).Q_baseline
    /\ plasma_state.cumulative_Q_baseline = 2 * Scale

(* C17: after a completed simulate_event both toggles equal the engage     *)
(* arguments of that call whatever they were before, and each toggle       *)
(* method is idempotent: setting a toggle to the value it has, or setting  *)
(* it twice to the same value, gives the state of setting it once.         *)
TogglesSetUnconditionally ==
    /\ (last.op = "simulate_event" /\ last.raised = "none" =>
          /\ dbe_state.time_crystal_engaged = last.engage_time_crystal
          /\ dbe_state.compression_engaged = last.engage_compression)
    /\ toggle_time_crystal(dbe_state, dbe_state.time_crystal_engaged)
           = dbe_state
    /\ toggle_compression(dbe_state, dbe_state.compression_engaged)
           = dbe_state
    /\ \A engaged \in BOOLEAN :
         /\ toggle_time_crystal(toggle_time_crystal(dbe_state, engaged),
                                engaged)
                = toggle_time_crystal(dbe_state, engaged)
         /\ toggle_compression(toggle_compression(dbe_state, engaged),
                               engaged)
                = toggle_compression(dbe_state, engaged)

(* An event that passed False for the time crystal while it was engaged    *)
(* and True for the encoder while it was already engaged.                  *)
DisengagedByEventWitness ==
    /\ last.op = "simulate_event"
    /\ last.raised = "none"
    /\ last.pre_dbe.time_crystal_engaged
    /\ ~last.engage_time_crystal
    /\ ~dbe_state.time_crystal_engaged
    /\ last.pre_dbe.compression_engaged
    /\ last.engage_compression
    /\ dbe_state.compression_engaged

(* C12 as claimed: no simulate_event call, whatever its alpha, leaves      *)
(* either accumulator lower than it was before the call.                   *)
AccumulatorsNeverDecrease ==
    /\ plasma_state.cumulative_Q >= last.pre_plasma.cumulative_Q
    /\ plasma_state.cumulative_Q_baseline
           >= last.pre_plasma.cumulative_Q_baseline

(* C12 as amended: on a plasma with positive constants no call lowers the  *)
(* baseline accumulator, and no call with alpha >= 0 lowers cumulative_Q.  *)
AccumulatorsNeverDecreaseForAlpha ==
    last.op = "simulate_event" /\ last.pre_plasma.heating_power > 0 =>
        /\ plasma_state.cumulative_Q_baseline
               >= last.pre_plasma.cumulative_Q_baseline
        /\ (last.alpha >= 0 =>
               plasma_state.cumulative_Q >= last.pre_plasma.cumulative_Q)

(* A call with a large positive alpha that raised cumulative_Q from a      *)
(* total that a call with negative alpha had driven below 0.               *)
RaisedAfterNegativeWitness ==
    /\ last.op = "simulate_event"
    /\ last.raised = "none"
    /\ last.alpha = 30000
    /\ last.pre_plasma.cumulative_Q < 0
    /\ plasma_state.cumulative_Q > last.pre_plasma.cumulative_Q
    /\ plasma_state.cumulative_Q_baseline
           > last.pre_plasma.cumulative_Q_baseline

(* C15 as claimed: an event on a plasma with heating_power <= 0 ends in a  *)
(* division error and leaves both accumulators as they were.               *)
GainErrorWithoutHeating ==
    last.op = "simulate_event" /\ last.pre_plasma.heating_power <= 0 =>
        /\ last.raised = "ZeroDivisionError"
        /\ plasma_state.cumulative_Q = last.pre_plasma.cumulative_Q
        /\ plasma_state.cumulative_Q_baseline
               = last.pre_plasma.cumulative_Q_baseline

(* The DBE state a compute_metrics call was made on has both allocations   *)
(* within pools of positive size and a learning bonus in [0, 0.5].         *)
MetricsOnValidState ==
    /\ last.op = "compute_metrics"
    /\ last.pre_dbe.memory_total > 0
    /\ 0 <= last.pre_dbe.qubits_for_detection
    /\ last.pre_dbe.qubits_for_detection <= last.pre_dbe.qubits_total
    /\ 0 <= last.pre_dbe.memory_for_state
    /\ last.pre_dbe.memory_for_state <= last.pre_dbe.memory_total
    /\ 0 <= last.pre_dbe.stability_gain
    /\ last.pre_dbe.stability_gain <= learn_cap

(* C13: on such a state compute_metrics returns a response_time that is 1  *)
(* up to 10 qubits and 10/qubits above, hence positive and not larger than *)
(* that of any smaller allocation, a stability_score in [0, 1] and a       *)
(* mitigation probability strictly between 0 and 1.                        *)
MetricsInRange ==
    MetricsOnValidState =>
        /\ last.raised = "none"
        /\ last.result.response_time > 0
        /\ last.result.response_time =
               IF last.pre_dbe.qubits_for_detection <= 10 THEN Scale
               ELSE (10 * Scale) \div last.pre_dbe.qubits_for_detection
        /\ \A fewer \in MetricQubits :
               fewer <= last.pre_dbe.qubits_for_detection =>
                   compute_metrics([last.pre_dbe EXCEPT
                       !.qubits_for_detection = fewer]).response_time
                       >= last.result.response_time
        /\ 0 <= last.result.stability_score
        /\ last.result.stability_score <= Scale
        /\ 0 < last.result.mitigation_success_prob
        /\ last.result.mitigation_success_prob < Scale

(* The whole memory pool allocated with the bonus at its cap, both         *)
(* subsystems engaged and every qubit on detection.                        *)
ScoreAtCapWitness ==
    /\ MetricsOnValidState
    /\ last.pre_dbe.memory_for_state = last.pre_dbe.memory_total
    /\ last.pre_dbe.stability_gain = learn_cap
    /\ last.pre_dbe.qubits_for_detection = last.pre_dbe.qubits_total
    /\ last.pre_dbe.time_crystal_engaged
    /\ last.pre_dbe.compression_engaged
    /\ last.result.stability_score = Scale
    /\ last.result.response_time = Scale \div 10

(* C14 as claimed: with memory_total <= 0 compute_metrics raises nothing   *)
(* and returns stability_score 0.                                          *)
MetricsGracefulOnEmptyPool ==
    last.op = "compute_metrics" /\ last.pre_dbe.memory_total <= 0 =>
        /\ last.raised = "none"
        /\ last.result.stability_score = 0

(* The deterministic scenario: default pools, allocations 50 and 50, both  *)
(* toggles off, no learning bonus.                                         *)
DeterministicScenario ==
    /\ last.op = "compute_metrics"
    /\ last.pre_dbe = DBEState(50, 50, 0)

(* C16 as claimed: the scenario gives response_time 0.2 and a mitigation   *)
(* probability of 0.926 within 1e-4, one unit of the fixed point.           *)
ScenarioProbabilityClaimed ==
    DeterministicScenario =>
        /\ last.raised = "none"
        /\ last.result.response_time = 2000
        /\ last.result.mitigation_success_prob >= 9260 - 1
        /\ last.result.mitigation_success_prob <= 9260 + 1

(* C16 as amended: the scenario gives response_time 0.2 and a mitigation   *)
(* probability of 0.7709 within 1e-4.                                      *)
ScenarioProbability ==
    DeterministicScenario =>
        /\ last.raised = "none"
        /\ last.result.response_time = 2000
        /\ last.result.mitigation_success_prob >= 7709 - 1
        /\ last.result.mitigation_success_prob <= 7709 + 1

(* compute_metrics has returned on the deterministic scenario.             *)
ScenarioComputedWitness ==
    /\ DeterministicScenario
    /\ last.raised = "none"
    /\ last.result.coherence_factor = Scale
    /\ last.result.efficiency_factor = Scale
    /\ last.result.stability_score > 8500
    /\ last.result.stability_score < 8540

BatchPastKeyCheck ==
    /\ last.op = "simulate_batch"
    /\ last.response.status # 401

PenaltyOfNotes(notes) ==
    (IF \E i \in 1..Len(notes) : notes[i].about = "coil"
     THEN RiskAnalyzer.coil_penalty ELSE 0)
    + (IF \E i \in 1..Len(notes) : notes[i].about = "pellet"
       THEN RiskAnalyzer.pellet_penalty ELSE 0)
    + (IF \E i \in 1..Len(notes) : notes[i].about = "memory"
       THEN RiskAnalyzer.memory_penalty ELSE 0)

(* The place of a subsystem in the fixed order of the notes. *)
NoteRank(about) ==
    CASE about = "stability" -> 1
      [] about = "coil" -> 2
      [] about = "pellet" -> 3
      [] about = "memory" -> 4

(* C21: for every stability, also outside [0, 1], and every coil, pellet   *)
(* and memory status, the score of assess is in [0, 1] and is 1 -          *)
(* stability plus the penalties its notes report, clamped, and the notes   *)
(* come in the order stability, coil, pellet, memory.                      *)
RiskScoreClamped ==
    last.op = "assess" =>
        /\ 0 <= last.report.score
        /\ last.report.score <= Scale
        /\ last.report.score =
               Max(0, Min(Scale, Scale - last.stability
                                   + PenaltyOfNotes(last.report.notes)))
        /\ \A i \in 1..Len(last.report.notes) :
           \A j \in 1..Len(last.report.notes) :
               i < j => NoteRank(last.report.notes[i].about)
                          < NoteRank(last.report.notes[j].about)

(* A report whose unclamped risk exceeds 1 and that carries all four notes. *)
ClampedHighRiskWitness ==
    /\ last.op = "assess"
    /\ last.stability = 0
    /\ Len(last.report.notes) = 4
    /\ last.report.score = Scale

(* C22 as claimed: with nominal stability, the coil not saturated, the     *)
(* pellet available and no memory errors the notes are empty and the score *)
(* is below 0.3; with low stability, the coil at maximum current, the      *)
(* pellet unavailable and memory errors the score is 1.0 and the notes     *)
(* have an entry for the coil, for the pellet injector and for the memory. *)
RiskNotesMatchConditions ==
    last.op = "assess" =>
        /\ (/\ last.stability = 8000
            /\ last.controller.rmp_coil = [I_set |-> 0, I_max |-> Scale]
            /\ last.controller.pellet_injector = [can_fire |-> "True"]
            /\ last.controller.memory = [error_count |-> 0]
            => /\ last.report.notes = <<>>
               /\ last.report.score < 3000)
        /\ (/\ last.stability = 2000
            /\ last.controller.rmp_coil = [I_set |-> Scale, I_max |-> Scale]
            /\ last.controller.pellet_injector = [can_fire |-> "False"]
            /\ last.controller.memory = [error_count |-> 2]
            => /\ last.report.score = Scale
               /\ \E i \in 1..Len(last.report.notes) :
                      last.report.notes[i].about = "coil"
               /\ \E i \in 1..Len(last.report.notes) :
                      last.report.notes[i].about = "pellet"
               /\ \E i \in 1..Len(last.report.notes) :
                      last.report.notes[i].about = "memory")

(* C23 as claimed: decide on a controller made by DBEController() returns  *)
(* RMP current 0 and no pellet for stability >= 0.6, 0.5 * I_max and no    *)
(* pellet for 0.3 <= stability < 0.6, I_max and a fired pellet below 0.3,  *)
(* stores the decision as last_decision and sets the coil to the current.  *)
DecideFollowsThresholds ==
    last.op = "decide" /\ last.given = {} =>
        /\ last.raised = "none"
        /\ last.outcome.decision =
               [rmp_current |->
                    IF last.stability < 3000 THEN Scale
                    ELSE IF last.stability < 6000 THEN Scale \div 2
                    ELSE 0,
                pellet_fire |-> last.stability < 3000]
        /\ last.outcome.controller.last_decision = last.outcome.decision
        /\ last.outcome.controller.rmp_coil.I_set
               = last.outcome.decision.rmp_current

(* The shortest time between two injected pellets, 1 / rate_max_hz.        *)
minimum_interval(injector) == Div(Scale, injector.rate_max_hz)

(* C24 as claimed: over calls at non-decreasing times the first fire call  *)
(* on a fresh injector is injected and returns True, also at time 0; a     *)
(* later call is injected exactly when at least 1 / rate_max_hz has passed *)
(* since the last injected one; a suppressed call returns False and        *)
(* changes neither the temperature profile nor last_fire_s.                *)
PelletRateLimited ==
    last.op = "fire" =>
        /\ calls = 1 => last.returned
        /\ last.injected_before =>
               (last.returned <=>
                    last.current_time - last.pre_injector.last_fire_s
                        >= minimum_interval(last.pre_injector))
        /\ ~last.returned =>
               /\ transport.T_keV = last.pre_T
               /\ pellet_injector.last_fire_s = last.pre_injector.last_fire_s

(* C25 as claimed: for tick_ns > 0 and a time not before start_time_s,     *)
(* sync_delay returns a delay d with 0 <= d < one tick period, also when   *)
(* the time lies exactly on a tick boundary.                               *)
SyncDelayBelowPeriod ==
    /\ last.op = "sync_delay"
    /\ last.clock.tick_ns > 0
    /\ last.current_time >= last.clock.start_time
    => 0 <= last.delay /\ last.delay < last.clock.tick_ns

(* C26 as claimed: for non-empty data and a block size of at least 1,      *)
(* decode(encode(data), len(data)) has the length of data and its entry i  *)
(* is the average of the encode block that contains index i, also when     *)
(* the length is not a multiple of the block size.                         *)
RoundTripBlockAverages ==
    /\ last.op = "decode"
    /\ last.data # <<>>
    /\ last.compression_factor >= 1
    => /\ Len(last.decoded) = Len(last.data)
       /\ \A i \in 1..Len(last.data) :
            last.decoded[i]
                = last.compressed[((i - 1) \div last.compression_factor) + 1]

(* The DBE state of an event when its metrics are computed: the            *)
(* allocations and toggles of this call applied, the learning bonus still  *)
(* the one the call was entered with.                                      *)
StateAtMetrics ==
    toggle_compression(
        toggle_time_crystal(
            reallocate_resources(last.pre_dbe, last.qubits, last.memory),
            last.engage_time_crystal),
        last.engage_compression)

(* C27: inside one completed simulate_event the metrics are computed after *)
(* the reallocation and toggles of this call and before its learning       *)
(* increment; tau_e_current is tau_e_standard * (1 + alpha * score) for    *)
(* the score of those metrics; the gain the call accumulates uses that     *)
(* tau_e_current; a success raises the bonus only for the metrics of the   *)
(* next event.                                                             *)
StepOrderWithinEvent ==
    last.op = "simulate_event" /\ last.raised = "none" =>
        /\ last.prob = compute_metrics(StateAtMetrics).mitigation_success_prob
        /\ plasma_state.tau_e_current =
               Mul(plasma_state.tau_e_standard,
                   Scale + Mul(last.alpha,
                               compute_metrics(StateAtMetrics).stability_score))
        /\ plasma_state.cumulative_Q - last.pre_plasma.cumulative_Q =
               Div(Mul(Mul(plasma_state.n, plasma_state.T),
                       plasma_state.tau_e_current),
                   plasma_state.heating_power)
        /\ dbe_state.stability_gain =
               IF last.success
               THEN Min(learn_cap,
                        last.pre_dbe.stability_gain + learn_increment)
               ELSE last.pre_dbe.stability_gain
        /\ compute_metrics(dbe_state).stability_score
               >= compute_metrics(StateAtMetrics).stability_score

(* A second event that succeeded after a first success and engaged the     *)
(* time crystal: its tau_e_current comes from the bonus of the first success *)
(* only, below what the score after its own success gives.                 *)
LearnedForNextEventWitness ==
    /\ events = 2
    /\ last.op = "simulate_event"
    /\ last.raised = "none"
    /\ last.success
    /\ last.alpha = 3000
    /\ last.pre_dbe.stability_gain = learn_increment
    /\ dbe_state.stability_gain = 2 * learn_increment
    /\ last.engage_time_crystal
    /\ ~last.pre_dbe.time_crystal_engaged
    /\ plasma_state.tau_e_current > Scale
    /\ plasma_state.tau_e_current
           < Mul(plasma_state.tau_e_standard,
                 Scale + Mul(last.alpha,
                             compute_metrics(dbe_state).stability_score))

(* C29: a simulate_event whose gain step raises because heating_power is 0 *)
(* is not rolled back: both accumulators are as before the call, while the *)
(* allocations, the toggles, tau_e_current, the stability and the learning *)
(* bonus keep what the earlier steps of the call wrote.                    *)
GainErrorNotRolledBack ==
    last.op = "simulate_event" /\ last.raised = "ZeroDivisionError" =>
        /\ last.pre_plasma.heating_power = 0
        /\ plasma_state.cumulative_Q = last.pre_plasma.cumulative_Q
        /\ plasma_state.cumulative_Q_baseline
               = last.pre_plasma.cumulative_Q_baseline
        /\ dbe_state.qubits_for_detection = last.qubits
        /\ dbe_state.memory_for_state = last.memory
        /\ dbe_state.time_crystal_engaged = last.engage_time_crystal
        /\ dbe_state.compression_engaged = last.engage_compression
        /\ plasma_state.tau_e_current =
               Mul(plasma_state.tau_e_standard,
                   Scale + Mul(last.alpha,
                               compute_metrics(StateAtMetrics).stability_score))
        /\ plasma_state.stability =
               resolve_stability(last.pre_plasma, last.success, last.execute,
                                 last.gamma, last.beta,
                                 compute_metrics(StateAtMetrics).response_time)
        /\ dbe_state.stability_gain =
               IF last.success
               THEN Min(learn_cap,
                        last.pre_dbe.stability_gain + learn_increment)
               ELSE last.pre_dbe.stability_gain

(* A successful mitigation on a plasma without heating power: the call     *)
(* raised at the gain step after it had engaged both subsystems, raised    *)
(* tau_e_current, lowered the stability and learned.                       *)
PartialEventWitness ==
    /\ last.op = "simulate_event"
    /\ last.raised = "ZeroDivisionError"
    /\ last.success
    /\ dbe_state.time_crystal_engaged
    /\ ~last.pre_dbe.time_crystal_engaged
    /\ dbe_state.compression_engaged
    /\ ~last.pre_dbe.compression_engaged
    /\ plasma_state.tau_e_current > last.pre_plasma.tau_e_current
    /\ plasma_state.stability = last.pre_plasma.stability - mitigation_dip
    /\ dbe_state.stability_gain
           = last.pre_dbe.stability_gain + learn_increment
    /\ plasma_state.cumulative_Q = 0
    /\ plasma_state.cumulative_Q_baseline = 0

(* C30: run_until(end_time, dt) with dt > 0 terminates; when it has        *)
(* returned the time is at least end_time or the stability is at most 0;   *)
(* every step of its loop advances the time by exactly dt; the stability   *)
(* never increases and is never below 0: an ELM lowers it by 0.1, clamped  *)
(* at 0.                                                                   *)
RunUntilTerminates ==
    /\ [](transport.stability >= 0)
    /\ [](transport.pc = "returned" =>
              transport.time >= last.end_time \/ transport.stability <= 0)
    /\ [][/\ transport.pc = "loop" /\ transport'.pc = "loop" =>
               transport'.time = transport.time + last.dt
          /\ transport'.stability \in
               {transport.stability, Max(0, transport.stability - 1000)}
          /\ transport.pc # "loop" => transport'.time = transport.time]_vars
    /\ (transport.pc = "loop" ~> transport.pc = "returned")

(* A run entered with stability 0.25 that returned before end_time because *)
(* the third ELM took the stability to 0, where the clamp held it.         *)
StoppedByStabilityWitness ==
    /\ transport.pc = "returned"
    /\ last.pre_stability = 2500
    /\ transport.stability = 0
    /\ transport.time = last.pre_time + 3 * last.dt
    /\ transport.time < last.end_time

(* The metrics of thread i were computed on its own allocations and        *)
(* toggles.                                                                *)
SawOwnArguments(i) ==
    /\ threads.t[i].seen.qubits_for_detection = threads.t[i].args.qubits
    /\ threads.t[i].seen.memory_for_state = threads.t[i].args.memory
    /\ threads.t[i].seen.time_crystal_engaged
           = threads.t[i].args.engage_time_crystal
    /\ threads.t[i].seen.compression_engaged
           = threads.t[i].args.engage_compression

PastMetrics(i) ==
    threads.t[i].pc \notin {"idle", "reallocate_resources",
                            "toggle_time_crystal", "toggle_compression",
                            "compute_metrics"}

Returned_threads == {i \in Threads : threads.t[i].pc = "returned"}

(* The threads whose call has stored its term into cumulative_Q. *)
StoredGain ==
    {i \in Threads :
        threads.t[i].pc \in {"load_cumulative_Q_baseline",
                             "store_cumulative_Q_baseline", "returned"}}

RECURSIVE GainTerms(_)
GainTerms(S) ==
    IF S = {} THEN 0
    ELSE LET i == CHOOSE j \in S : TRUE
         IN  threads.t[i].Q_current + GainTerms(S \ {i})

(* C28: when every call of simulate_event on the shared state runs inside  *)
(* one lock, the metrics of every call come from its own allocations and   *)
(* toggles, its probability is the one of those metrics, and k returned    *)
(* calls have accumulated k gain terms.  (Without the lock an interleaving *)
(* breaks this: see the witness.)                                          *)
SerialUnderLock ==
    threads.mode = "lock" =>
        /\ \A i \in Threads :
             PastMetrics(i) =>
                 /\ SawOwnArguments(i)
                 /\ threads.t[i].mitigation_prob =
                        compute_metrics(threads.t[i].seen)
                            .mitigation_success_prob
        /\ plasma_state.cumulative_Q_baseline
               = Cardinality(Returned_threads) * Scale
        /\ plasma_state.cumulative_Q = GainTerms(StoredGain)

(* Without a lock: both calls have returned, one of them computed its      *)
(* probability on the allocations of the other, and one baseline term and  *)
(* one stability update were lost.                                         *)
RaceWithoutLockWitness ==
    /\ threads.mode = "none"
    /\ \A i \in Threads : threads.t[i].pc = "returned"
    /\ \E i \in Threads :
         /\ ~SawOwnArguments(i)
         /\ threads.t[i].mitigation_prob
                # compute_metrics(
                      [threads.t[i].seen EXCEPT
                          !.qubits_for_detection = threads.t[i].args.qubits,
                          !.memory_for_state = threads.t[i].args.memory,
                          !.time_crystal_engaged =
                              threads.t[i].args.engage_time_crystal,
                          !.compression_engaged =
                              threads.t[i].args.engage_compression])
                      .mitigation_success_prob
    /\ plasma_state.cumulative_Q_baseline < Cardinality(Threads) * Scale
    /\ \A i \in Threads : ~threads.t[i].execute
    /\ plasma_state.stability = stability_default - 30 * Scale

====
